---- MODULE Spec2Model ----
(***************************************************************************)
(* A model of the Logseq-to-Hugo converter: the document extraction        *)
(* engine (marker detection, nesting resolution, the processed set, the    *)
(* two extraction conventions and their coordinator), the metadata parser, *)
(* the text reconstructor and the conversion loop with its status filter.  *)
(*                                                                         *)
(* Two generations of the converter are modelled side by side:             *)
(*   - the strategy objects of types.go driven by BlogConverter (main.go), *)
(*   - the plain functions extractBlogPosts / extractTopLevelPost /        *)
(*     extractListPost (writer.go) driven by convertFile.                  *)
(*                                                                         *)
(* Text is a sequence of one-character strings, so that substring search,  *)
(* line splitting, trimming and the metadata pattern are computed the way  *)
(* the Go code computes them.  A tree node is a record                     *)
(*   [kind, level, text, raw, kids]                                        *)
(* where text is what Node.Text(source) yields for a leaf block, raw is    *)
(* the bytes of its Lines(), and kids are the child nodes in order.  A     *)
(* node is identified by its path (the child indexes from the root), which *)
(* plays the role of the pointer identity the Go code keys its map by.     *)
(***************************************************************************)
EXTENDS Integers, Sequences, FiniteSets, TLC

VARIABLES
    doc,            \* the description of the input document
    prog,           \* the entry point that was called
    pc,             \* control location
    round,          \* which invocation on this document this is
    phase,          \* convertLogseqToHugo: 1 = its own extraction, 2 = inside Convert
    wi,             \* position of the running ast.Walk in the pre-order
    posts,          \* the list walk's local `posts`
    sources,        \* the list each of these posts was extracted at (its path)
    processedLists, \* the list walk's local `processedLists`
    metadataLines,  \* the top-level walk's local `metadataLines`
    contentBlocks,  \* the top-level walk's local `contentBlocks`
    foundBlogMarker,\* the top-level walk's local `foundBlogMarker`
    allPosts,       \* what the extraction returned to its caller
    nestedResult,   \* what the list walk returned (<<>> while it has not run)
    topResult,      \* what the top-level walk returned
    ranNested,      \* the list walk was run in this extraction
    ranTop,         \* the top-level walk was run in this extraction
    prevPosts,      \* the result of the previous extraction on this document
    hasPrev,        \* there was a previous extraction
    pi,             \* index of the post the conversion loop is at
    outputs,        \* the conversion loop's local list of output directories
    files,          \* index files on disk: records [dir, meta, content]
    dirs,           \* directories created on disk
    handed,         \* posts handed to the asset processor
    result,         \* what the entry point returned: [err, paths]
    fn,             \* translate tool: the function that is running ("none": not in use)
    arg,            \* translate tool: the argument of that function
    ret,            \* translate tool: what it returned
    step,           \* translate tool: loop index of the running function
    slept,          \* translate tool: the waits of TranslateText so far, in seconds
    calls           \* translate tool: the outcomes of TranslateText's API calls so far

vars == <<doc, prog, pc, round, phase, wi, posts, sources, processedLists, metadataLines,
          contentBlocks, foundBlogMarker, allPosts, nestedResult, topResult,
          ranNested, ranTop, prevPosts, hasPrev, pi, outputs, files, dirs,
          handed, result, fn, arg, ret, step, slept, calls>>

(***************************************************************************)
(* Bounds of the model.                                                    *)
(***************************************************************************)
MaxWrap == 2        \* wrapper list levels around a marked list
MaxLists == 2       \* independent lists in one document
MaxRounds == 2      \* invocations on the same document

(***************************************************************************)
(* Text.                                                                   *)
(***************************************************************************)
Marker == <<"t", "y", "p", "e", ":", ":", " ", "b", "l", "o", "g">>
MarkerCase == <<"T", "y", "p", "e", ":", ":", "b", "l", "o", "g">>
MarkerSpaced == <<"t", "y", "p", "e", ":", ":", " ", " ", "b", "l", "o", "g">>
Sep == <<":", ":">>
NL == "\n"
KeyDate == <<"d", "a", "t", "e">>
KeyTitle == <<"t", "i", "t", "l", "e">>
KeyAuthor == <<"a", "u", "t", "h", "o", "r">>
KeyHeader == <<"h", "e", "a", "d", "e", "r">>
KeyStatus == <<"s", "t", "a", "t", "u", "s">>
Online == <<"o", "n", "l", "i", "n", "e">>
Draft == <<"d", "r", "a", "f", "t">>
LineStatusOnline == <<"s", "t", "a", "t", "u", "s", ":", ":", " ", "o", "n", "l", "i", "n", "e">>
LineStatusDraft == <<"s", "t", "a", "t", "u", "s", ":", ":", " ", "d", "r", "a", "f", "t">>
LineStatusCased == <<"s", "t", "a", "t", "u", "s", ":", ":", " ", "O", "n", "l", "i", "n", "e">>
OnlineCased == <<"O", "n", "l", "i", "n", "e">>
LineDate == <<"d", "a", "t", "e", ":", ":", " ", "2", "0", "2", "4", "-", "0", "1", "-", "0", "1">>
DateValue == <<"2", "0", "2", "4", "-", "0", "1", "-", "0", "1">>
TitlePrefix == <<"t", "i", "t", "l", "e", ":", ":", " ", "T">>
LineSummary == <<"s", "u", "m", "m", "a", "r", "y", ":", ":", " ", "S">>
DeclaredSummary == <<"S">>
WrapLabel == <<"[", "[", "C", "]", "]">>
Intro == <<"i", "n", "t", "r", "o">>
TextA == <<"A">>
TextB == <<"B">>
TwoLines == <<"L", "i", "n", "e", " ", "o", "n", "e", ".", "\n", "L", "i", "n", "e", " ", "t", "w", "o", ".">>
TwoLinesJoined == <<"L", "i", "n", "e", " ", "o", "n", "e", ".", " ", "L", "i", "n", "e", " ", "t", "w", "o", ".">>
SecondBlock == <<"S", "e", "c", "o", "n", "d", " ", "b", "l", "o", "c", "k">>
Digits == <<"0", "1", "2", "3", "4", "5", "6", "7", "8", "9">>
WordChars == {"a", "b", "c", "d", "e", "f", "g", "h", "i", "j", "k", "l", "m",
              "n", "o", "p", "q", "r", "s", "t", "u", "v", "w", "x", "y", "z",
              "A", "B", "C", "D", "E", "F", "G", "H", "I", "J", "K", "L", "M",
              "N", "O", "P", "Q", "R", "S", "T", "U", "V", "W", "X", "Y", "Z",
              "0", "1", "2", "3", "4", "5", "6", "7", "8", "9", "_"}
SpaceChars == {" ", "\t", "\n", "\r", "\f"}

RECURSIVE Flatten(_)
Flatten(ss) == IF Len(ss) = 0 THEN <<>> ELSE Head(ss) \o Flatten(Tail(ss))

\* strings.Contains
Contains(s, sub) ==
    \E i \in 0..(Len(s) - Len(sub)) : SubSeq(s, i + 1, i + Len(sub)) = sub

\* strings.Split(s, c) for a one-character separator
RECURSIVE Split(_, _)
Split(s, c) ==
    IF \A i \in 1..Len(s) : s[i] # c
    THEN <<s>>
    ELSE LET k == CHOOSE i \in 1..Len(s) :
                      s[i] = c /\ \A j \in 1..(i - 1) : s[j] # c
         IN  <<SubSeq(s, 1, k - 1)>> \o Split(SubSeq(s, k + 1, Len(s)), c)

\* strings.ReplaceAll(s, old, new) for one-character old and new
ReplaceAll(s, old, new) == [i \in 1..Len(s) |-> IF s[i] = old THEN new ELSE s[i]]

\* strings.ReplaceAll(s, old, new) for a one-character old and any new
ReplaceAllBy(s, old, new) ==
    Flatten([i \in 1..Len(s) |-> IF s[i] = old THEN new ELSE <<s[i]>>])

\* strings.TrimSpace
TrimSpace(s) ==
    LET keep == {i \in 1..Len(s) : s[i] \notin SpaceChars}
    IN  IF keep = {} THEN <<>>
        ELSE LET lo == CHOOSE i \in keep : \A j \in keep : i <= j
                 hi == CHOOSE i \in keep : \A j \in keep : j <= i
             IN  SubSeq(s, lo, hi)

\* strings.Repeat
RECURSIVE Repeat(_, _)
Repeat(s, n) == IF n <= 0 THEN <<>> ELSE s \o Repeat(s, n - 1)

(***************************************************************************)
(* The metadata parser.                                                    *)
(***************************************************************************)
EmptyMeta ==
    [Date |-> <<>>, Title |-> <<>>, Author |-> <<>>, Header |-> <<>>,
     Summary |-> <<>>, Status |-> <<>>]

\* a greedy group, up to the last ")" (what C13 rules out)
extractPathGreedy(raw) ==
    LET opens == {i \in 1..Len(raw) : raw[i] = "(" /\ \E j \in (i + 1)..Len(raw) : raw[j] = ")"}
    IN  IF opens = {} THEN raw
        ELSE LET i == CHOOSE a \in opens : \A b \in opens : a <= b
                 closes == {j \in (i + 1)..Len(raw) : raw[j] = ")"}
                 j == CHOOSE a \in closes : \A b \in closes : b <= a
             IN  SubSeq(raw, i + 1, j - 1)

\* regexp `\((.*?)\)`: the text between the first "(" and the first ")" after it
extractPath(raw) ==
    LET opens == {i \in 1..Len(raw) : raw[i] = "(" /\ \E j \in (i + 1)..Len(raw) : raw[j] = ")"}
    IN  IF opens = {} THEN raw
        ELSE LET i == CHOOSE a \in opens : \A b \in opens : a <= b
                 closes == {j \in (i + 1)..Len(raw) : raw[j] = ")"}
                 j == CHOOSE a \in closes : \A b \in closes : a <= b
             IN  SubSeq(raw, i + 1, j - 1)

\* a switch that also takes the capitalised key Date (what C12 rules out)
setFieldAnyCase(meta, key, value) ==
    CASE key = KeyDate \/ key = <<"D", "a", "t", "e">> -> [meta EXCEPT !.Date = value]
      [] key = KeyTitle -> [meta EXCEPT !.Title = value]
      [] key = KeyAuthor -> [meta EXCEPT !.Author = value]
      [] key = KeyHeader -> [meta EXCEPT !.Header = extractPath(value)]
      [] key = KeyStatus -> [meta EXCEPT !.Status = value]
      [] OTHER -> meta

setField(meta, key, value) ==
    CASE key = KeyDate -> [meta EXCEPT !.Date = value]
      [] key = KeyTitle -> [meta EXCEPT !.Title = value]
      [] key = KeyAuthor -> [meta EXCEPT !.Author = value]
      [] key = KeyHeader -> [meta EXCEPT !.Header = extractPath(value)]
      [] key = KeyStatus -> [meta EXCEPT !.Status = value]
      [] OTHER -> meta

\* regexp `(\w+)::\s*(.*)`, leftmost match: the positions where a word
\* character is directly followed by "::"
KeyEnds(line) ==
    {j \in 1..(Len(line) - 2) :
        line[j] \in WordChars /\ line[j + 1] = ":" /\ line[j + 2] = ":"}

\* One line of Parse: the submatches of the leftmost match, then setField.
ParseLine(meta, line) ==
    IF KeyEnds(line) = {} THEN meta
    ELSE LET j == CHOOSE a \in KeyEnds(line) : \A b \in KeyEnds(line) : a <= b
             starts == {i \in 1..j : \A k \in i..j : line[k] \in WordChars}
             i == CHOOSE a \in starts : \A b \in starts : a <= b
             key == SubSeq(line, i, j)
             value == TrimSpace(SubSeq(line, j + 3, Len(line)))
         IN  setField(meta, key, value)

RECURSIVE ParseFrom(_, _)
ParseFrom(meta, lines) ==
    IF Len(lines) = 0 THEN meta
    ELSE ParseFrom(ParseLine(meta, Head(lines)), Tail(lines))

Parse(lines) == ParseFrom(EmptyMeta, lines)

(***************************************************************************)
(* The document tree (goldmark's ast.Node as the converter uses it).       *)
(***************************************************************************)
Node(kind, level, text, raw, kids) ==
    [kind |-> kind, level |-> level, text |-> text, raw |-> raw, kids |-> kids]
TextBlock(s) == Node("TextBlock", 0, s, s, <<>>)
Paragraph(s) == Node("Paragraph", 0, s, s, <<>>)
Heading(k, s) == Node("Heading", k, s, s, <<>>)
ListItem(kids) == Node("ListItem", 0, <<>>, <<>>, kids)
List(items) == Node("List", 0, <<>>, <<>>, items)
Document(kids) == Node("Document", 0, <<>>, <<>>, kids)

\* Node.Text(source): a leaf block's own text, a container's children's texts
\* concatenated
RECURSIVE Text(_)
Text(n) ==
    IF Len(n.kids) = 0 THEN n.text
    ELSE Flatten([i \in 1..Len(n.kids) |-> Text(n.kids[i])])

RECURSIVE NodeAt(_, _)
NodeAt(n, p) == IF Len(p) = 0 THEN n ELSE NodeAt(n.kids[Head(p)], Tail(p))

\* ast.Walk: the nodes in the order in which the walker enters them
RECURSIVE PreOrder(_)
PreOrder(n) ==
    <<<<>>>> \o
    Flatten([i \in 1..Len(n.kids) |->
        LET sub == PreOrder(n.kids[i])
        IN  [j \in 1..Len(sub) |-> <<i>> \o sub[j]]])

IsPrefix(p, q) == Len(p) <= Len(q) /\ SubSeq(q, 1, Len(p)) = p
Parent(p) == SubSeq(p, 1, Len(p) - 1)

\* the inner ast.Walk(n, ...): every List entered in the subtree of p
ListsUnder(t, p) ==
    LET w == PreOrder(NodeAt(t, p))
    IN  {p \o w[j] : j \in {k \in 1..Len(w) : NodeAt(t, p \o w[k]).kind = "List"}}

(***************************************************************************)
(* The text reconstructor, in its two generations.                         *)
(***************************************************************************)
\* the raw lines of all children of a list item
ItemLines(item) == Flatten([m \in 1..Len(item.kids) |-> item.kids[m].raw])

\* bullets that run together, without the newline after each (what C23 rules
\* out)
NodeTextOfChildNoBreak(child) ==
    (IF child.kind = "Heading" THEN Repeat(<<"#">>, child.level) \o <<" ">> ELSE <<>>)
    \o child.raw
    \o (IF child.kind = "List"
        THEN <<NL>> \o Flatten([k \in 1..Len(child.kids) |->
                 <<"*", " ">> \o ItemLines(child.kids[k])])
        ELSE <<>>)

\* one iteration of extractNodeText's loop over the children
NodeTextOfChild(child) ==
    (IF child.kind = "Heading" THEN Repeat(<<"#">>, child.level) \o <<" ">> ELSE <<>>)
    \o child.raw
    \o (IF child.kind = "List"
        THEN <<NL>> \o Flatten([k \in 1..Len(child.kids) |->
                 <<"*", " ">> \o ItemLines(child.kids[k]) \o <<NL>>])
        ELSE <<>>)

extractNodeText(n) == Flatten([c \in 1..Len(n.kids) |-> NodeTextOfChild(n.kids[c])])

\* a heading loop that starts at 1 (what C24 rules out)
TextOfChildShortHeading(child) ==
    IF child.kind = "List"
    THEN <<NL>> \o Flatten([k \in 1..Len(child.kids) |->
             <<"*", " ">> \o Text(child.kids[k]) \o <<NL>>])
    ELSE IF child.kind = "Heading"
    THEN Repeat(<<"#">>, child.level - 1) \o <<" ">> \o Text(child) \o <<NL>>
    ELSE child.raw

\* the rendered text of a child in place of its raw lines (what C25 rules
\* out)
TextOfChildRendered(child) ==
    IF child.kind = "List"
    THEN <<NL>> \o Flatten([k \in 1..Len(child.kids) |->
             <<"*", " ">> \o Text(child.kids[k]) \o <<NL>>])
    ELSE IF child.kind = "Heading"
    THEN Repeat(<<"#">>, child.level) \o <<" ">> \o Text(child) \o <<NL>>
    ELSE Text(child)

\* one iteration of extractText's loop over the children
TextOfChild(child) ==
    IF child.kind = "List"
    THEN <<NL>> \o Flatten([k \in 1..Len(child.kids) |->
             <<"*", " ">> \o Text(child.kids[k]) \o <<NL>>])
    ELSE IF child.kind = "Heading"
    THEN Repeat(<<"#">>, child.level) \o <<" ">> \o Text(child) \o <<NL>>
    ELSE child.raw

extractText(n) == TrimSpace(Flatten([c \in 1..Len(n.kids) |-> TextOfChild(n.kids[c])]))

(***************************************************************************)
(* Extraction of one post from a matched list, in its two generations.     *)
(***************************************************************************)
FirstListKid(n) ==
    LET ls == {i \in 1..Len(n.kids) : n.kids[i].kind = "List"}
    IN  IF ls = {} THEN 0 ELSE CHOOSE i \in ls : \A j \in ls : i <= j

RECURSIVE findDeepestNestedList(_, _)
findDeepestNestedList(t, p) ==
    LET k == FirstListKid(NodeAt(t, p))
    IN  IF k = 0 THEN p ELSE findDeepestNestedList(t, p \o <<k>>)

RECURSIVE findDeepestList(_, _)
findDeepestList(t, p) ==
    LET k == FirstListKid(NodeAt(t, p))
    IN  IF k = 0 THEN p ELSE findDeepestList(t, p \o <<k>>)

\* the list extractFromList reads its items from
ResolvedList(t, p) ==
    IF Len(NodeAt(t, p).kids) = 0 THEN p
    ELSE LET deepest == findDeepestNestedList(t, p \o <<1>>)
         IN  IF deepest # p \o <<1>> THEN deepest ELSE p

\* a summary that keeps the newlines of the first block (what C6 rules out)
DeriveSummaryVerbatim(meta, content) ==
    IF Len(content) > 0 THEN [meta EXCEPT !.Summary = content[1]] ELSE meta

\* post.Meta.Summary = strings.ReplaceAll(post.Content[0], "\n", " ")
DeriveSummary(meta, content) ==
    IF Len(content) > 0
    THEN [meta EXCEPT !.Summary = ReplaceAll(content[1], NL, " ")]
    ELSE meta

\* a loop that takes the first item for a content block too (what C20
\* rules out)
extractFromListAllItems(t, p) ==
    LET items == NodeAt(t, ResolvedList(t, p)).kids
        lines == IF Len(items) = 0 THEN <<>> ELSE Split(Text(items[1]), NL)
        content == [i \in 1..Len(items) |-> extractNodeText(items[i])]
    IN  [Meta |-> DeriveSummary(Parse(lines), content), Content |-> content]

extractFromList(t, p) ==
    LET items == NodeAt(t, ResolvedList(t, p)).kids
        lines == IF Len(items) = 0 THEN <<>> ELSE Split(Text(items[1]), NL)
        content == [i \in 1..(Len(items) - 1) |-> extractNodeText(items[i + 1])]
    IN  [Meta |-> DeriveSummary(Parse(lines), content), Content |-> content]

\* the list extractListPost reads its items from
ResolvedListPost(t, p) ==
    LET deepest == findDeepestList(t, p \o <<1>>)
    IN  IF deepest # p \o <<1>> THEN deepest ELSE p

\* if len(contentBlocks) > 0 && post.Meta.Summary == ""
DeriveSummaryIfEmpty(meta, content) ==
    IF Len(content) > 0 /\ meta.Summary = <<>>
    THEN [meta EXCEPT !.Summary = ReplaceAll(content[1], NL, " ")]
    ELSE meta

extractListPost(t, p) ==
    LET items == NodeAt(t, ResolvedListPost(t, p)).kids
        lines == IF Len(items) = 0 THEN <<>> ELSE Split(Text(items[1]), NL)
        texts == [i \in 1..(Len(items) - 1) |-> extractText(items[i + 1])]
        content == SelectSeq(texts, LAMBDA c : c # <<>>)
    IN  [Meta |-> DeriveSummaryIfEmpty(Parse(lines), content), Content |-> content]

(***************************************************************************)
(* Input documents.  A document is described by                            *)
(*   top   : the free-standing metadata paragraph, [mark, status], with    *)
(*           mark = "absent" when there is none;                           *)
(*   lists : its top-level lists in order, each                            *)
(*           [id, wrap, mark, status, summary, items]:                     *)
(*           wrap wrapper levels around a list whose first item holds the  *)
(*           metadata lines (mark = "plain": no metadata item) and whose   *)
(*           other items are the content; its title is "T" and its id.     *)
(* mark says which spelling of the marker line the metadata carries.       *)
(***************************************************************************)
Marks == {"exact", "case", "spaced", "none"}
Statuses == {"online", "draft", "cased", "none"}
ItemKinds == {"A", "B", "two", "second", "sub", "submarked", "empty"}

Join(lines) ==
    Flatten([i \in 1..Len(lines) |-> IF i = 1 THEN lines[i] ELSE <<NL>> \o lines[i]])

MarkLine(mark) ==
    CASE mark = "exact" -> <<Marker>>
      [] mark = "case" -> <<MarkerCase>>
      [] mark = "spaced" -> <<MarkerSpaced>>
      [] OTHER -> <<>>

StatusLine(status) ==
    CASE status = "online" -> <<LineStatusOnline>>
      [] status = "draft" -> <<LineStatusDraft>>
      [] status = "cased" -> <<LineStatusCased>>
      [] OTHER -> <<>>

TitleOf(i) == <<"T", Digits[i + 1]>>
TitleLine(i) == TitlePrefix \o <<Digits[i + 1]>>

\* the metadata lines of the list with id i (the top paragraph has id 0)
MetaText(mark, status, summary, i) ==
    Join(MarkLine(mark) \o StatusLine(status) \o <<LineDate, TitleLine(i)>>
         \o (IF summary THEN <<LineSummary>> ELSE <<>>))

ContentItem(kind) ==
    CASE kind = "A" -> ListItem(<<TextBlock(TextA)>>)
      [] kind = "B" -> ListItem(<<TextBlock(TextB)>>)
      [] kind = "two" -> ListItem(<<TextBlock(TwoLines)>>)
      [] kind = "second" -> ListItem(<<TextBlock(SecondBlock)>>)
      [] kind = "sub" ->
            ListItem(<<TextBlock(TextA),
                       List(<<ListItem(<<TextBlock(TextB)>>),
                              ListItem(<<TextBlock(TextA)>>)>>)>>)
      [] kind = "submarked" ->
            ListItem(<<TextBlock(TextA),
                       List(<<ListItem(<<TextBlock(MetaText("exact", "online", FALSE, 9))>>),
                              ListItem(<<TextBlock(TextB)>>)>>)>>)
      \* a bullet with nothing after it: a list item without children
      [] kind = "empty" -> ListItem(<<>>)

RECURSIVE Wrap(_, _)
Wrap(k, l) ==
    IF k = 0 THEN l
    ELSE List(<<ListItem(<<TextBlock(WrapLabel), Wrap(k - 1, l)>>)>>)

\* an item of a loose list (its items are separated by blank lines): the
\* parser wraps the item's text in a Paragraph instead of a TextBlock
Loose(item) ==
    [item EXCEPT !.kids = [k \in 1..Len(item.kids) |->
        IF item.kids[k].kind = "TextBlock"
        THEN [item.kids[k] EXCEPT !.kind = "Paragraph"]
        ELSE item.kids[k]]]

Outline(d) ==
    LET items == (IF d.mark = "plain" THEN <<>>
                  ELSE <<ListItem(<<TextBlock(MetaText(d.mark, d.status, d.summary, d.id))>>)>>)
                 \o [k \in 1..Len(d.items) |-> ContentItem(d.items[k])]
    IN  Wrap(d.wrap,
             List(IF d.loose THEN [k \in 1..Len(items) |-> Loose(items[k])] ELSE items))

\* the lists marked `before` stand above the free-standing paragraph
Tree(d) ==
    Document(Flatten([i \in 1..Len(d.lists) |->
                    IF d.lists[i].before THEN <<Outline(d.lists[i])>> ELSE <<>>])
             \o (IF d.top.mark = "absent" THEN <<>>
                 ELSE <<Paragraph(MetaText(d.top.mark, d.top.status, FALSE, 0))>>)
             \o Flatten([i \in 1..Len(d.lists) |->
                    IF d.lists[i].before THEN <<>>
                    ELSE (IF i > 1 THEN <<Paragraph(Intro)>> ELSE <<>>)
                         \o <<Outline(d.lists[i])>>]))

NoTop == [mark |-> "absent", status |-> "none"]
ListDesc(wrap, mark, status, summary, items) ==
    [id |-> 1, wrap |-> wrap, mark |-> mark, status |-> status, summary |-> summary,
     items |-> items, loose |-> FALSE, before |-> FALSE]
LooseList(l) == [l EXCEPT !.loose = TRUE]
ListBefore(l) == [l EXCEPT !.before = TRUE]
\* the lists of a document are numbered in document order
WithIds(ls) == [i \in 1..Len(ls) |-> [ls[i] EXCEPT !.id = i]]

\* one list, every spelling of the marker, every wrapping depth
MarkerDocs ==
    {[top |-> NoTop, lists |-> <<ListDesc(w, m, "online", FALSE, <<"A", "B">>)>>] :
        w \in 0..MaxWrap, m \in Marks}

\* one marked list: content, declared summary and status vary
SummaryDocs ==
    {[top |-> NoTop, lists |-> <<ListDesc(1, "exact", st, sm, it)>>] :
        st \in {"online", "draft", "none"}, sm \in BOOLEAN,
        it \in {<<>>, <<"A">>, <<"two", "second">>}}

\* a marked list whose content items hold sub-lists of their own
SubListDocs ==
    {[top |-> NoTop, lists |-> <<ListDesc(w, "exact", "online", FALSE, it)>>] :
        w \in 0..1,
        it \in {<<"sub">>, <<"A", "sub">>, <<"submarked">>, <<"sub", "submarked">>}}

\* a marked list with empty bullets among its content items
EmptyItemDocs ==
    {[top |-> NoTop, lists |-> <<ListDesc(w, "exact", "online", FALSE, it)>>] :
        w \in 0..1,
        it \in {<<"empty">>, <<"A", "empty", "B">>, <<"empty", "two">>}}

\* a loose list: the marker lies in a Paragraph inside a list item
LooseDocs ==
    {[top |-> NoTop, lists |-> WithIds(ls)] :
        ls \in {<<LooseList(ListDesc(w, m, "online", FALSE, <<"A", "B">>))>> :
                    w \in 0..1, m \in {"exact", "case", "none"}}
            \cup {<<LooseList(ListDesc(0, "exact", "online", FALSE, <<"A", "sub">>)),
                     ListDesc(0, "plain", "none", FALSE, <<"B", "A">>)>>,
                   <<ListDesc(0, "plain", "none", FALSE, <<"B">>),
                     LooseList(ListDesc(1, "exact", "draft", FALSE, <<"A">>)),
                     ListDesc(0, "exact", "online", FALSE, <<"B">>)>>}}

\* lists above and below the free-standing paragraph
BeforeDocs ==
    {[top |-> [mark |-> m, status |-> "online"], lists |-> WithIds(ls)] :
        m \in {"exact", "spaced"},
        ls \in {<<ListBefore(ListDesc(0, "plain", "none", FALSE, <<"A", "B">>)),
                  ListDesc(0, "plain", "none", FALSE, <<"B", "empty", "A">>)>>,
                <<ListBefore(ListDesc(0, "plain", "none", FALSE, <<"sub">>))>>,
                <<ListBefore(ListDesc(0, "plain", "none", FALSE, <<"A">>)),
                  ListDesc(0, "plain", "none", FALSE, <<"sub", "B">>),
                  ListDesc(1, "plain", "none", FALSE, <<"A">>)>>}}

\* lists without items, and lists whose first item has no children, above
\* the lists that carry a post
ShapeDocs ==
    {[top |-> [mark |-> m, status |-> "online"], lists |-> WithIds(ls)] :
        m \in {"absent", "exact"},
        ls \in {<<ListDesc(0, "plain", "none", FALSE, <<>>),
                  ListDesc(0, "exact", "online", FALSE, <<"A">>)>>,
                <<ListDesc(0, "plain", "none", FALSE, <<"empty", "A">>),
                  ListDesc(1, "exact", "online", FALSE, <<"B">>)>>,
                <<ListDesc(1, "plain", "none", FALSE, <<>>),
                  ListDesc(0, "plain", "none", FALSE, <<"empty">>),
                  ListDesc(0, "exact", "draft", FALSE, <<"A", "B">>)>>}}

\* several independent lists in one document
ListChoices ==
    {ListDesc(0, "exact", "online", FALSE, <<"A">>),
     ListDesc(1, "exact", "draft", FALSE, <<"B">>),
     ListDesc(0, "none", "online", FALSE, <<"A">>)}
RECURSIVE ListSeqs(_)
ListSeqs(n) ==
    IF n = 0 THEN {<<>>}
    ELSE {Append(s, l) : s \in ListSeqs(n - 1), l \in ListChoices}
MultiDocs ==
    {[top |-> NoTop, lists |-> WithIds(ls)] :
        ls \in UNION {ListSeqs(n) : n \in 2..MaxLists}}

\* the free-standing metadata paragraph followed by lists
TopDocs ==
    {[top |-> [mark |-> m, status |-> st], lists |-> WithIds(ls)] :
        m \in {"exact", "case", "spaced"}, st \in {"online", "draft"},
        ls \in {<<ListDesc(0, "plain", "none", FALSE, <<"A", "B">>)>>,
                <<ListDesc(0, "plain", "none", FALSE, <<"two", "sub">>)>>,
                <<>>,
                <<ListDesc(1, "exact", "online", FALSE, <<"A">>)>>,
                <<ListDesc(0, "plain", "none", FALSE, <<"A">>),
                  ListDesc(0, "exact", "draft", FALSE, <<"B">>)>>}}

\* one or two marked lists whose status is spelled in every way
StatusDocs ==
    {[top |-> NoTop, lists |-> WithIds(ls)] :
        ls \in {<<ListDesc(1, "exact", st, FALSE, <<"A">>)>> : st \in Statuses}
            \cup {<<ListDesc(0, "exact", st, FALSE, <<"A">>),
                     ListDesc(0, "exact", "online", FALSE, <<"B">>)>> : st \in Statuses}}

\* no marker anywhere
PlainDocs ==
    {[top |-> NoTop, lists |-> ls] :
        ls \in {<<>>, <<ListDesc(0, "plain", "none", FALSE, <<"A", "B">>)>>}}

Docs ==
    MarkerDocs \cup SummaryDocs \cup SubListDocs \cup EmptyItemDocs \cup LooseDocs \cup ShapeDocs
    \cup BeforeDocs \cup MultiDocs \cup TopDocs \cup StatusDocs \cup PlainDocs

(***************************************************************************)
(* The state machine.                                                      *)
(***************************************************************************)
Progs == {"Convert", "convertLogseqToHugo", "convertFile"}
StrategyProgs == {"Convert", "convertLogseqToHugo"}

\* the parsed tree of every document and the order in which a walk enters its nodes
TreeOf == [d \in Docs |-> Tree(d)]
WalkOf == [d \in Docs |-> PreOrder(Tree(d))]
tree == TreeOf[doc]
walk == WalkOf[doc]

NoResult == [err |-> "", paths |-> <<>>, returned |-> FALSE]
Failure(msg) == [err |-> msg, paths |-> <<>>, returned |-> TRUE]
Success(paths) == [err |-> "", paths |-> paths, returned |-> TRUE]

ctlVars == <<doc, prog, round, phase>>
walkVars == <<wi, posts, sources, processedLists, metadataLines, contentBlocks,
              foundBlogMarker>>
extractVars == <<allPosts, nestedResult, topResult, ranNested, ranTop>>
histVars == <<prevPosts, hasPrev>>
loopVars == <<pi, outputs>>
diskVars == <<files, dirs, handed>>
toolVars == <<fn, arg, ret, step, slept, calls>>
convVars == <<ctlVars, pc, walkVars, extractVars, histVars, loopVars, diskVars, result>>

\* the translate tool is not in use
ToolIdle ==
    /\ fn = "none"
    /\ arg = <<>>
    /\ ret = <<>>
    /\ step = 0
    /\ slept = <<>>
    /\ calls = <<>>

Init ==
    /\ doc \in Docs
    /\ prog \in Progs
    /\ pc = "start"
    /\ round = 1
    /\ phase = 1
    /\ wi = 1
    /\ posts = <<>>
    /\ sources = <<>>
    /\ processedLists = {}
    /\ metadataLines = <<>>
    /\ contentBlocks = <<>>
    /\ foundBlogMarker = FALSE
    /\ allPosts = <<>>
    /\ nestedResult = <<>>
    /\ topResult = <<>>
    /\ ranNested = FALSE
    /\ ranTop = FALSE
    /\ prevPosts = <<>>
    /\ hasPrev = FALSE
    /\ pi = 1
    /\ outputs = <<>>
    /\ files = {}
    /\ dirs = {}
    /\ handed = <<>>
    /\ result = NoResult
    /\ ToolIdle

\* os.ReadFile and the goldmark parse at the head of every entry point
ReadAndParse ==
    /\ pc = "start"
    /\ \E ok \in BOOLEAN :
          IF ok
          THEN pc' = "parsed" /\ result' = result
          ELSE pc' = "done" /\ result' = Failure("reading input file")
    /\ UNCHANGED <<toolVars, ctlVars, walkVars, extractVars, histVars, loopVars, diskVars>>

(***************************************************************************)
(* The strategy generation: BlogConverter.extractBlogPosts runs            *)
(* NestedListExtractor.Extract, then TopLevelMetadataExtractor.Extract.    *)
(***************************************************************************)
\* a start that keeps the processed set of the previous call (what C8 rules out)
StartExtractStale ==
    /\ pc = "parsed"
    /\ prog \in StrategyProgs
    /\ pc' = "nested"
    /\ wi' = 1
    /\ posts' = <<>>
    /\ sources' = <<>>
    /\ processedLists' = processedLists
    /\ allPosts' = <<>>
    /\ nestedResult' = <<>>
    /\ topResult' = <<>>
    /\ ranNested' = TRUE
    /\ ranTop' = FALSE
    /\ UNCHANGED <<toolVars, ctlVars, metadataLines, contentBlocks, foundBlogMarker, histVars,
                   loopVars, diskVars, result>>

\* the extractor loop is entered and the first extractor starts its walk
StartExtract ==
    /\ pc = "parsed"
    /\ prog \in StrategyProgs
    /\ pc' = "nested"
    /\ wi' = 1
    /\ posts' = <<>>
    /\ sources' = <<>>
    /\ processedLists' = {}
    /\ allPosts' = <<>>
    /\ nestedResult' = <<>>
    /\ topResult' = <<>>
    /\ ranNested' = TRUE
    /\ ranTop' = FALSE
    /\ UNCHANGED <<toolVars, ctlVars, metadataLines, contentBlocks, foundBlogMarker, histVars,
                   loopVars, diskVars, result>>

\* a looser test that also accepts the capitalised key (what C1 rules out)
IsBlogListAnyCase(n) ==
    /\ Len(n.kids) > 0
    /\ Contains(Text(n.kids[1]), Marker) \/ Contains(Text(n.kids[1]), MarkerCase)

\* firstItem != nil && strings.Contains(string(firstItem.Text(source)), "type:: blog")
IsBlogList(n) == Len(n.kids) > 0 /\ Contains(Text(n.kids[1]), Marker)

\* marking the matched list alone, without the lists below it (what C3 rules out)
MarkOnlyItself(t, p, done) == done \cup {p}

\* marking the matched list and the lists under its first item only (what
\* C28 rules out)
MarkFirstItemOnly(t, p, done) == done \cup {p} \cup ListsUnder(t, p \o <<1>>)

\* the inner walk that sets processedLists[child] = true
MarkProcessed(t, p, done) == done \cup ListsUnder(t, p)

\* a walk that stops at the first matching list (what C4 rules out)
NestedVisitStop ==
    /\ pc = "nested"
    /\ wi <= Len(walk)
    /\ LET p == walk[wi]
           n == NodeAt(tree, p)
       IN  IF n.kind = "List" /\ p \notin processedLists /\ IsBlogList(n)
           THEN /\ posts' = Append(posts, extractFromList(tree, p))
                /\ sources' = Append(sources, p)
                /\ processedLists' = MarkProcessed(tree, p, processedLists)
                /\ wi' = Len(walk) + 1
           ELSE /\ UNCHANGED <<posts, sources, processedLists>>
                /\ wi' = wi + 1
    /\ UNCHANGED <<toolVars, ctlVars, pc, metadataLines, contentBlocks, foundBlogMarker,
                   extractVars, histVars, loopVars, diskVars, result>>

\* a walk that ends at a list without a first item, or whose first item has
\* no children (what C26 rules out)
NestedVisitStopAtOdd ==
    /\ pc = "nested"
    /\ wi <= Len(walk)
    /\ LET p == walk[wi]
           n == NodeAt(tree, p)
       IN  IF n.kind = "List" /\ p \notin processedLists /\ IsBlogList(n)
           THEN /\ posts' = Append(posts, extractFromList(tree, p))
                /\ sources' = Append(sources, p)
                /\ processedLists' = MarkProcessed(tree, p, processedLists)
                /\ wi' = wi + 1
           ELSE /\ UNCHANGED <<posts, sources, processedLists>>
                /\ wi' = IF n.kind = "List" /\ (Len(n.kids) = 0 \/ Len(n.kids[1].kids) = 0)
                         THEN Len(walk) + 1
                         ELSE wi + 1
    /\ UNCHANGED <<toolVars, ctlVars, pc, metadataLines, contentBlocks, foundBlogMarker,
                   extractVars, histVars, loopVars, diskVars, result>>

\* the callback of the walk in NestedListExtractor.Extract, entering walk[wi]
NestedVisit ==
    /\ pc = "nested"
    /\ wi <= Len(walk)
    /\ LET p == walk[wi]
           n == NodeAt(tree, p)
       IN  IF n.kind = "List" /\ p \notin processedLists /\ IsBlogList(n)
           THEN /\ posts' = Append(posts, extractFromList(tree, p))
                /\ sources' = Append(sources, p)
                /\ processedLists' = MarkProcessed(tree, p, processedLists)
           ELSE UNCHANGED <<posts, sources, processedLists>>
    /\ wi' = wi + 1
    /\ UNCHANGED <<toolVars, ctlVars, pc, metadataLines, contentBlocks, foundBlogMarker,
                   extractVars, histVars, loopVars, diskVars, result>>

\* a loop that keeps the first extractor's posts only (what C5 rules out)
CollectFirst(all, found) == IF Len(all) > 0 THEN all ELSE all \o found

\* what the extractor loop does with one extractor's posts
Collect(all, found) == IF Len(found) > 0 THEN all \o found ELSE all

\* the walk is over: Extract returns posts, the loop appends them and the
\* second extractor starts its walk
NestedReturn ==
    /\ pc = "nested"
    /\ wi > Len(walk)
    /\ nestedResult' = posts
    /\ allPosts' = Collect(allPosts, posts)
    /\ pc' = "top"
    /\ wi' = 1
    /\ metadataLines' = <<>>
    /\ contentBlocks' = <<>>
    /\ foundBlogMarker' = FALSE
    /\ ranTop' = TRUE
    /\ UNCHANGED <<toolVars, ctlVars, posts, sources, processedLists, topResult, ranNested, histVars,
                   loopVars, diskVars, result>>

\* the lines of a paragraph that the top-level walk takes for metadata
MetadataLinesOf(n) ==
    IF n.kind = "Paragraph" /\ Contains(Text(n), Sep)
    THEN SelectSeq(Split(Text(n), NL), LAMBDA l : Contains(l, Sep))
    ELSE <<>>

HasMarkerLine(lines) == \E i \in 1..Len(lines) : Contains(lines[i], Marker)

\* a test that takes no list for nested (what C21 rules out)
IsNestedListNever(t, p) == FALSE

\* n.Parent() != nil && n.Parent().Kind() == ast.KindListItem
IsNestedList(t, p) == Len(p) > 0 /\ NodeAt(t, Parent(p)).kind = "ListItem"

\* the callback of the walk in TopLevelMetadataExtractor.Extract
TopVisit ==
    /\ pc = "top"
    /\ wi <= Len(walk)
    /\ LET p == walk[wi]
           n == NodeAt(tree, p)
           lines == MetadataLinesOf(n)
           found == foundBlogMarker \/ HasMarkerLine(lines)
       IN  /\ metadataLines' = metadataLines \o lines
           /\ foundBlogMarker' = found
           /\ contentBlocks' =
                 IF found /\ n.kind = "List" /\ ~IsNestedList(tree, p)
                 THEN contentBlocks \o [k \in 1..Len(n.kids) |-> extractNodeText(n.kids[k])]
                 ELSE contentBlocks
    /\ wi' = wi + 1
    /\ UNCHANGED <<toolVars, ctlVars, pc, posts, sources, processedLists, extractVars, histVars,
                   loopVars, diskVars, result>>

\* a return that ignores the marker flag (what C9 rules out)
TopLevelPostsAlways(found, lines, blocks) ==
    <<[Meta |-> DeriveSummary(Parse(lines), blocks), Content |-> blocks]>>

\* what TopLevelMetadataExtractor.Extract returns after its walk
TopLevelPosts(found, lines, blocks) ==
    IF ~found THEN <<>>
    ELSE <<[Meta |-> DeriveSummary(Parse(lines), blocks), Content |-> blocks]>>

TopReturn ==
    /\ pc = "top"
    /\ wi > Len(walk)
    /\ LET found == TopLevelPosts(foundBlogMarker, metadataLines, contentBlocks)
       IN  /\ topResult' = found
           /\ allPosts' = Collect(allPosts, found)
    /\ pc' = "extracted"
    /\ UNCHANGED <<toolVars, ctlVars, walkVars, nestedResult, ranNested, ranTop, histVars,
                   loopVars, diskVars, result>>

(***************************************************************************)
(* The function generation: extractBlogPosts tries extractTopLevelPost     *)
(* first and walks the lists only when that found no post.                 *)
(***************************************************************************)
StartExtractPosts ==
    /\ pc = "parsed"
    /\ prog = "convertFile"
    /\ pc' = "top2"
    /\ wi' = 1
    /\ posts' = <<>>
    /\ sources' = <<>>
    /\ processedLists' = {}
    /\ metadataLines' = <<>>
    /\ contentBlocks' = <<>>
    /\ foundBlogMarker' = FALSE
    /\ allPosts' = <<>>
    /\ nestedResult' = <<>>
    /\ topResult' = <<>>
    /\ ranNested' = FALSE
    /\ ranTop' = TRUE
    /\ UNCHANGED <<toolVars, ctlVars, histVars, loopVars, diskVars, result>>

\* the callback of the walk in extractTopLevelPost
TopVisit2 ==
    /\ pc = "top2"
    /\ wi <= Len(walk)
    /\ LET p == walk[wi]
           n == NodeAt(tree, p)
           lines == MetadataLinesOf(n)
           found == foundBlogMarker \/ HasMarkerLine(lines)
       IN  /\ metadataLines' = metadataLines \o lines
           /\ foundBlogMarker' = found
           /\ contentBlocks' =
                 IF found /\ n.kind = "List" /\ ~IsNestedList(tree, p)
                 THEN contentBlocks \o [k \in 1..Len(n.kids) |-> extractText(n.kids[k])]
                 ELSE contentBlocks
    /\ wi' = wi + 1
    /\ UNCHANGED <<toolVars, ctlVars, pc, posts, sources, processedLists, extractVars, histVars,
                   loopVars, diskVars, result>>

\* what extractTopLevelPost returns after its walk (<<>> stands for nil)
TopLevelPost(found, lines, blocks) ==
    IF ~found THEN <<>>
    ELSE <<[Meta |-> DeriveSummaryIfEmpty(Parse(lines), blocks), Content |-> blocks]>>

\* extractTopLevelPost returns; extractBlogPosts returns its post at once, or
\* starts the list walk when there is none
TopReturn2 ==
    /\ pc = "top2"
    /\ wi > Len(walk)
    /\ LET found == TopLevelPost(foundBlogMarker, metadataLines, contentBlocks)
       IN  /\ topResult' = found
           /\ IF Len(found) > 0
              THEN /\ allPosts' = found
                   /\ pc' = "extracted"
                   /\ UNCHANGED <<wi, ranNested>>
              ELSE /\ allPosts' = allPosts
                   /\ pc' = "list2"
                   /\ wi' = 1
                   /\ ranNested' = TRUE
    /\ UNCHANGED <<toolVars, ctlVars, posts, sources, processedLists, metadataLines, contentBlocks,
                   foundBlogMarker, nestedResult, ranTop, histVars, loopVars,
                   diskVars, result>>

\* the callback of the list walk in extractBlogPosts
ListVisit2 ==
    /\ pc = "list2"
    /\ wi <= Len(walk)
    /\ LET p == walk[wi]
           n == NodeAt(tree, p)
       IN  IF n.kind = "List" /\ p \notin processedLists /\ IsBlogList(n)
           THEN /\ posts' = Append(posts, extractListPost(tree, p))
                /\ sources' = Append(sources, p)
                /\ processedLists' = MarkProcessed(tree, p, processedLists)
           ELSE UNCHANGED <<posts, sources, processedLists>>
    /\ wi' = wi + 1
    /\ UNCHANGED <<toolVars, ctlVars, pc, metadataLines, contentBlocks, foundBlogMarker,
                   extractVars, histVars, loopVars, diskVars, result>>

ListReturn2 ==
    /\ pc = "list2"
    /\ wi > Len(walk)
    /\ nestedResult' = posts
    /\ allPosts' = posts
    /\ pc' = "extracted"
    /\ UNCHANGED <<toolVars, ctlVars, walkVars, topResult, ranNested, ranTop, histVars,
                   loopVars, diskVars, result>>

(***************************************************************************)
(* The callers: Convert, convertFile and convertLogseqToHugo.              *)
(***************************************************************************)
\* where Convert returns to
ReturnTo == IF prog = "convertLogseqToHugo" THEN "returned" ELSE "done"

\* convertLogseqToHugo looks at the posts itself before it calls Convert
CompatCheck ==
    /\ pc = "extracted"
    /\ prog = "convertLogseqToHugo"
    /\ phase = 1
    /\ prevPosts' = allPosts
    /\ hasPrev' = TRUE
    /\ IF Len(allPosts) = 0
       THEN /\ result' = Failure("no blog post found with 'type:: blog' marker")
            /\ pc' = "done"
            /\ phase' = phase
       ELSE IF allPosts[1].Meta.Status # Online
       THEN /\ result' = Failure("blog post status is not online")
            /\ pc' = "done"
            /\ phase' = phase
       ELSE /\ result' = result
            /\ pc' = "start"
            /\ phase' = 2
    /\ UNCHANGED <<toolVars, doc, prog, round, walkVars, extractVars, loopVars, diskVars>>

\* a caller that takes an empty extraction for a success (what C11 rules out)
CheckPostsLenient ==
    /\ pc = "extracted"
    /\ prog = "convertLogseqToHugo" => phase = 2
    /\ prevPosts' = allPosts
    /\ hasPrev' = TRUE
    /\ result' = result
    /\ pc' = "loop"
    /\ pi' = 1
    /\ outputs' = <<>>
    /\ UNCHANGED <<toolVars, ctlVars, walkVars, extractVars, diskVars>>

\* if len(posts) == 0 { return nil, error }, else the loop over the posts starts
CheckPosts ==
    /\ pc = "extracted"
    /\ prog = "convertLogseqToHugo" => phase = 2
    /\ prevPosts' = allPosts
    /\ hasPrev' = TRUE
    /\ IF Len(allPosts) = 0
       THEN /\ result' = Failure("no blog post found with 'type:: blog' marker")
            /\ pc' = ReturnTo
       ELSE /\ result' = result
            /\ pc' = "loop"
    /\ pi' = 1
    /\ outputs' = <<>>
    /\ UNCHANGED <<toolVars, ctlVars, walkVars, extractVars, diskVars>>

createOutputDir(meta) == meta.Date \o <<"_">> \o ReplaceAll(meta.Title, " ", "_")

RECURSIVE JoinBlocks(_)
JoinBlocks(blocks) ==
    IF Len(blocks) = 0 THEN <<>>
    ELSE (IF TrimSpace(Head(blocks)) # <<>>
          THEN TrimSpace(Head(blocks)) \o <<NL, NL>> ELSE <<>>)
         \o JoinBlocks(Tail(blocks))

buildContent(blocks) == TrimSpace(JoinBlocks(blocks))

\* a filter that only holds drafts back (what C10 rules out)
IsOnlineLoose(post) == post.Meta.Status # Draft

\* if post.Meta.Status != "online" { continue }
IsOnline(post) == post.Meta.Status = Online

\* a loop that a post with another status ends (what C29 rules out)
ConvertPostBreak ==
    /\ pc = "loop"
    /\ pi <= Len(allPosts)
    /\ LET post == allPosts[pi]
           outputDir == createOutputDir(post.Meta)
       IN  IF ~IsOnline(post)
           THEN /\ pi' = Len(allPosts) + 1
                /\ UNCHANGED <<pc, outputs, diskVars, result>>
           ELSE \E mkdirOk \in BOOLEAN, writeOk \in BOOLEAN :
                   IF ~mkdirOk
                   THEN /\ result' = Failure("creating output directory")
                        /\ pc' = ReturnTo
                        /\ UNCHANGED <<pi, outputs, diskVars>>
                   ELSE /\ dirs' = dirs \cup {outputDir}
                        /\ handed' = Append(handed, post)
                        /\ IF ~writeOk
                           THEN /\ result' = Failure("creating index.md")
                                /\ pc' = ReturnTo
                                /\ UNCHANGED <<pi, outputs, files>>
                           ELSE /\ files' = {f \in files : f.dir # outputDir} \cup
                                       {[dir |-> outputDir, meta |-> post.Meta,
                                         content |-> buildContent(post.Content)]}
                                /\ outputs' = Append(outputs, outputDir)
                                /\ pi' = pi + 1
                                /\ UNCHANGED <<pc, result>>
    /\ UNCHANGED <<toolVars, ctlVars, walkVars, extractVars, histVars>>

\* one iteration of the loop over the posts
ConvertPost ==
    /\ pc = "loop"
    /\ pi <= Len(allPosts)
    /\ LET post == allPosts[pi]
           outputDir == createOutputDir(post.Meta)
       IN  IF ~IsOnline(post)
           THEN /\ pi' = pi + 1
                /\ UNCHANGED <<pc, outputs, diskVars, result>>
           ELSE \E mkdirOk \in BOOLEAN, writeOk \in BOOLEAN :
                   IF ~mkdirOk
                   THEN /\ result' = Failure("creating output directory")
                        /\ pc' = ReturnTo
                        /\ UNCHANGED <<pi, outputs, diskVars>>
                   ELSE /\ dirs' = dirs \cup {outputDir}
                        /\ handed' = Append(handed, post)
                        /\ IF ~writeOk
                           THEN /\ result' = Failure("creating index.md")
                                /\ pc' = ReturnTo
                                /\ UNCHANGED <<pi, outputs, files>>
                           ELSE /\ files' = {f \in files : f.dir # outputDir} \cup
                                       {[dir |-> outputDir, meta |-> post.Meta,
                                         content |-> buildContent(post.Content)]}
                                /\ outputs' = Append(outputs, outputDir)
                                /\ pi' = pi + 1
                                /\ UNCHANGED <<pc, result>>
    /\ UNCHANGED <<toolVars, ctlVars, walkVars, extractVars, histVars>>

\* return outputPaths, nil
ConvertReturn ==
    /\ pc = "loop"
    /\ pi > Len(allPosts)
    /\ result' = Success(outputs)
    /\ pc' = ReturnTo
    /\ UNCHANGED <<toolVars, ctlVars, walkVars, extractVars, histVars, loopVars, diskVars>>

\* convertLogseqToHugo hands on Convert's error, or its first output path
CompatReturn ==
    /\ pc = "returned"
    /\ result' = IF result.err # "" THEN result
                 ELSE IF Len(result.paths) > 0 THEN Success(<<result.paths[1]>>)
                 ELSE Failure("conversion succeeded but no output was generated")
    /\ pc' = "done"
    /\ UNCHANGED <<toolVars, ctlVars, walkVars, extractVars, histVars, loopVars, diskVars>>

\* the watcher runs the converter on the same file again
Again ==
    /\ pc = "done"
    /\ round < MaxRounds
    /\ round' = round + 1
    /\ phase' = 1
    /\ pc' = "start"
    /\ result' = NoResult
    /\ UNCHANGED <<toolVars, doc, prog, walkVars, extractVars, histVars, loopVars, diskVars>>

Next ==
    \/ ReadAndParse
    \/ StartExtract
    \/ NestedVisit
    \/ NestedReturn
    \/ TopVisit
    \/ TopReturn
    \/ StartExtractPosts
    \/ TopVisit2
    \/ TopReturn2
    \/ ListVisit2
    \/ ListReturn2
    \/ CompatCheck
    \/ CheckPosts
    \/ ConvertPost
    \/ ConvertReturn
    \/ CompatReturn
    \/ Again

Spec == Init /\ [][Next]_vars

(***************************************************************************)
(* What the documents say about themselves, independently of the           *)
(* extraction: used to state the properties below.                         *)
(***************************************************************************)
\* the positions, in document order, of the lists whose metadata item
\* carries the exact marker
ExactLists(d) ==
    SelectSeq([i \in 1..Len(d.lists) |-> i], LAMBDA i : d.lists[i].mark = "exact")

\* 1 when a paragraph carries the exact marker: the free-standing one, or the
\* metadata item of a loose list
ExactTop(d) ==
    IF d.top.mark = "exact" \/ \E i \in 1..Len(d.lists) : d.lists[i].loose /\ d.lists[i].mark = "exact"
    THEN 1 ELSE 0

StatusText(status) ==
    CASE status = "online" -> Online
      [] status = "draft" -> Draft
      [] status = "cased" -> OnlineCased
      [] OTHER -> <<>>

\* the content blocks that single-line items stand for
PlainBlocks(items) == [k \in 1..Len(items) |-> IF items[k] = "A" THEN TextA ELSE TextB]
IsPlain(items) == \A k \in 1..Len(items) : items[k] \in {"A", "B"}

\* the post the list walk of the running entry point yields for a list that
\* stands alone in its document
AlonePost(l) ==
    LET t == Tree([top |-> NoTop, lists |-> <<l>>])
    IN  IF prog = "convertFile" THEN extractListPost(t, <<1>>) ELSE extractFromList(t, <<1>>)

\* s with every newline replaced by a space
JoinedLines(s) == [i \in 1..Len(s) |-> IF s[i] = NL THEN " " ELSE s[i]]

(***************************************************************************)
(* The properties.                                                         *)
(***************************************************************************)

\* C1: a list produces a post exactly when its first item's text contains the
\* exact substring "type:: blog", and the top-level walk yields its post
\* exactly when a paragraph line contains it; the spellings "Type::blog" and
\* "type::  blog" trigger neither walk.  So the list walk returns as many
\* posts as there are lists with the exact marker, and the top-level walk
\* returns one post or none.
C1_MarkerDetection ==
    pc = "extracted" =>
        /\ ranNested => Len(nestedResult) = Len(ExactLists(doc))
        /\ ranTop => Len(topResult) = ExactTop(doc)

\* both walks have run over a document whose only marker is a variant spelling
C1_Witness ==
    /\ pc = "extracted"
    /\ ranNested /\ ranTop
    /\ doc.top.mark \in {"case", "spaced"}
    /\ Len(doc.lists) = 1 /\ doc.lists[1].mark = "exact"
    /\ Len(nestedResult) = 1 /\ topResult = <<>>

\* C2: however many wrapper lists enclose a marked list, exactly one post
\* comes out and its metadata and content are those of the innermost list.
C2_NestingResolution ==
    (pc = "extracted" /\ ranNested /\ doc \in MarkerDocs /\ doc.lists[1].mark = "exact") =>
        /\ Len(nestedResult) = 1
        /\ nestedResult[1].Meta.Title = TitleOf(1)
        /\ nestedResult[1].Meta.Status = Online
        /\ nestedResult[1].Content = <<TextA, TextB>>

\* C3: a marked list whose content holds sub-lists produces one post: no post
\* is extracted at a list that lies inside a list a post was extracted at,
\* even when the inner list's first item carries the marker.
C3_Deduplication ==
    /\ \A i, j \in 1..Len(sources) : i # j => ~IsPrefix(sources[i], sources[j])
    /\ (pc = "extracted" /\ ranNested /\ doc \in SubListDocs) => Len(nestedResult) = 1

\* the walk went through a marked sub-list of an extracted list and skipped it
C3_Witness ==
    /\ pc = "extracted"
    /\ ranNested
    /\ doc \in SubListDocs
    /\ doc.lists[1].items = <<"sub", "submarked">>
    /\ Len(nestedResult) = 1
    /\ Cardinality(processedLists) >= 3

\* C4, its extraction: the walk does not stop at its first match: n marked
\* lists of one document give n posts, in document order, each with the
\* metadata and content of its own list (what that list yields when it
\* stands alone).
C4_Extraction ==
    (pc = "extracted" /\ ranNested) =>
        LET ex == ExactLists(doc)
        IN  /\ Len(nestedResult) = Len(ex)
            /\ \A k \in 1..Len(ex) :
                  LET l == doc.lists[ex[k]]
                  IN  /\ k <= Len(nestedResult)
                      /\ nestedResult[k] = AlonePost(l)
                      /\ nestedResult[k].Meta.Status = StatusText(l.status)
                      /\ nestedResult[k].Meta.Date = DateValue
                      /\ l.wrap <= 1 => nestedResult[k].Meta.Title = TitleOf(l.id)
                      /\ (l.wrap <= 1 /\ IsPlain(l.items)) =>
                            nestedResult[k].Content = PlainBlocks(l.items)

\* C4, its output directories: a conversion that succeeds on a file of marked
\* lists returns one directory per online list, in document order.
C4_OutputDirs ==
    (/\ pc = "done"
     /\ prog # "convertLogseqToHugo"
     /\ result.returned /\ result.err = ""
     /\ doc \in MultiDocs \cup StatusDocs) =>
        LET on == SelectSeq(ExactLists(doc), LAMBDA i : doc.lists[i].status = "online")
        IN  result.paths = [k \in 1..Len(on) |-> DateValue \o <<"_">> \o TitleOf(on[k])]

\* C4: n independent marked lists give n posts, each with the metadata and
\* content of its own list, and n output directories, all in document order.
C4_MultiplePosts == C4_Extraction /\ C4_OutputDirs

\* two marked lists of one document have given two posts in their order
C4_Witness ==
    /\ pc = "extracted"
    /\ ranNested
    /\ doc \in MultiDocs
    /\ Len(nestedResult) = 2
    /\ nestedResult[1].Meta.Title = TitleOf(1)
    /\ nestedResult[2].Meta.Title = TitleOf(2)
    /\ nestedResult[1].Content # nestedResult[2].Content

NoDeclaredSummary(d) == \A i \in 1..Len(d.lists) : ~d.lists[i].summary

\* C6: without a declared summary, the summary of a post is its first content
\* block with every newline replaced by a space, and the empty string when
\* the post has no content: a first block "line1\nline2" gives "line1 line2".
C6_SummaryDerivation ==
    (pc = "extracted" /\ NoDeclaredSummary(doc)) =>
        /\ \A k \in 1..Len(allPosts) :
              allPosts[k].Meta.Summary =
                 IF Len(allPosts[k].Content) = 0 THEN <<>>
                 ELSE JoinedLines(allPosts[k].Content[1])
        /\ (ranNested /\ doc \in SummaryDocs) =>
              nestedResult[1].Meta.Summary =
                 CASE doc.lists[1].items = <<>> -> <<>>
                   [] doc.lists[1].items = <<"A">> -> TextA
                   [] OTHER -> TwoLinesJoined

\* a post whose first block has two lines has got its one-line summary
C6_Witness ==
    /\ pc = "extracted"
    /\ NoDeclaredSummary(doc)
    /\ Len(allPosts) = 1
    /\ Len(allPosts[1].Content) = 2
    /\ \E i \in 1..Len(allPosts[1].Content[1]) : allPosts[1].Content[1][i] = NL
    /\ allPosts[1].Meta.Summary = TwoLinesJoined

\* C7: a summary declared in the metadata survives extraction: it is not
\* overwritten by the first content block.
C7_DeclaredSummaryKept ==
    (pc = "extracted" /\ ranNested /\ doc \in SummaryDocs /\ doc.lists[1].summary) =>
        nestedResult[1].Meta.Summary = DeclaredSummary

\* C8: extracting twice from the same document gives the same posts in the
\* same order with the same fields.
C8_Idempotence ==
    (pc = "extracted" /\ hasPrev) => allPosts = prevPosts

\* a second extraction of a document with two posts has returned
C8_Witness ==
    /\ pc = "extracted"
    /\ hasPrev
    /\ round = 2
    /\ prog = "Convert"
    /\ Len(allPosts) = 2
    /\ Len(prevPosts) = 2

\* C9: the top-level walk yields exactly one post when its marker flag was
\* set and none when it never was: a paragraph "type:: blog / status:: draft
\* / date:: 2024-01-01" followed by the list "- A / - B" gives one post with
\* status draft, date 2024-01-01 and content [A, B].
C9_TopLevelResult ==
    (pc = "extracted" /\ ranTop) =>
        /\ Len(topResult) = (IF foundBlogMarker THEN 1 ELSE 0)
        /\ foundBlogMarker <=> ExactTop(doc) = 1
        /\ (/\ doc.top = [mark |-> "exact", status |-> "draft"]
            /\ Len(doc.lists) = 1
            /\ doc.lists[1].mark = "plain"
            /\ doc.lists[1].items = <<"A", "B">>) =>
              /\ topResult[1].Meta.Status = Draft
              /\ topResult[1].Meta.Date = DateValue
              /\ topResult[1].Content = <<TextA, TextB>>

\* the top-level walk has returned the draft post of the example
C9_Witness ==
    /\ pc = "extracted"
    /\ ranTop
    /\ foundBlogMarker
    /\ doc.top = [mark |-> "exact", status |-> "draft"]
    /\ Len(doc.lists) = 1
    /\ doc.lists[1].items = <<"A", "B">>
    /\ Len(topResult) = 1
    /\ topResult[1].Meta.Status = Draft

\* C10: a post whose status is not exactly "online" is never handed to the
\* asset processor or the writer, and Convert and convertFile return no error
\* and no output when no post of the file is online.
C10_StatusFilter ==
    /\ \A k \in 1..Len(handed) : handed[k].Meta.Status = Online
    /\ \A f \in files : f.meta.Status = Online
    /\ (/\ pc = "done"
        /\ prog # "convertLogseqToHugo"
        /\ result.returned
        /\ result.err # "reading input file"
        /\ Len(allPosts) > 0
        /\ \A k \in 1..Len(allPosts) : allPosts[k].Meta.Status # Online) =>
            /\ result = Success(<<>>)
            /\ files = {}
            /\ dirs = {}

\* convertFile has returned from a file whose only post is a draft
C10_Witness ==
    /\ pc = "done"
    /\ prog = "convertFile"
    /\ Len(allPosts) = 1
    /\ allPosts[1].Meta.Status = Draft
    /\ result = Success(<<>>)
    /\ handed = <<>>

\* the document carries the exact marker nowhere
NoMarker(d) == ExactTop(d) = 0 /\ Len(ExactLists(d)) = 0

MaxMetaLines == 2   \* lines handed to one Parse call

MetaLines ==
    {[text |-> <<"d", "a", "t", "e", ":", ":", " ", "2", "0", "2", "4", "-", "0", "1", "-", "0", "1">>,
      field |-> "Date", value |-> <<"2", "0", "2", "4", "-", "0", "1", "-", "0", "1">>],
     [text |-> <<"t", "i", "t", "l", "e", ":", ":", " ", "T", "1">>,
      field |-> "Title", value |-> <<"T", "1">>],
     [text |-> <<"t", "i", "t", "l", "e", ":", ":", "T", " ", "2", " ">>,
      field |-> "Title", value |-> <<"T", " ", "2">>],
     [text |-> <<"a", "u", "t", "h", "o", "r", ":", ":", " ", "A", "l">>,
      field |-> "Author", value |-> <<"A", "l">>],
     [text |-> <<"s", "t", "a", "t", "u", "s", ":", ":", " ", "d", "r", "a", "f", "t">>,
      field |-> "Status", value |-> <<"d", "r", "a", "f", "t">>],
     [text |-> <<"-", " ", "s", "t", "a", "t", "u", "s", ":", ":", " ", "o", "n", "l", "i", "n", "e">>,
      field |-> "Status", value |-> <<"o", "n", "l", "i", "n", "e">>],
     [text |-> <<"h", "e", "a", "d", "e", "r", ":", ":", " ", "!", "[", "i", "]", "(", "p", ".", "j", "p", "g", ")">>,
      field |-> "Header", value |-> <<"p", ".", "j", "p", "g">>],
     [text |-> <<"D", "a", "t", "e", ":", ":", " ", "X">>,
      field |-> "none", value |-> <<>>],
     [text |-> <<"S", "T", "A", "T", "U", "S", ":", ":", " ", "X">>,
      field |-> "none", value |-> <<>>],
     [text |-> <<"l", "a", "n", "g", "u", "a", "g", "e", ":", ":", " ", "e", "n">>,
      field |-> "none", value |-> <<>>],
     [text |-> <<"s", "u", "m", "m", "a", "r", "y", ":", ":", " ", "S">>,
      field |-> "none", value |-> <<>>],
     [text |-> <<"x", "t", "i", "t", "l", "e", ":", ":", " ", "X">>,
      field |-> "none", value |-> <<>>],
     [text |-> <<"d", "a", "t", "e", ":", " ", "X">>,
      field |-> "none", value |-> <<>>],
     [text |-> <<":", ":", " ", "X">>,
      field |-> "none", value |-> <<>>],
     [text |-> <<"p", "l", "a", "i", "n", " ", "t", "e", "x", "t">>,
      field |-> "none", value |-> <<>>],
     [text |-> <<>>,
      field |-> "none", value |-> <<>>]}

HeaderLines ==
    {[text |-> <<"h", "e", "a", "d", "e", "r", ":", ":", " ", "!", "[", "i", "m", "a", "g", "e", "]", "(", ".", ".", "/", "a", ".", "j", "p", "g", ")">>,
      field |-> "Header", value |-> <<".", ".", "/", "a", ".", "j", "p", "g">>],
     [text |-> <<"h", "e", "a", "d", "e", "r", ":", ":", " ", "a", ".", "j", "p", "g">>,
      field |-> "Header", value |-> <<"a", ".", "j", "p", "g">>],
     [text |-> <<"h", "e", "a", "d", "e", "r", ":", ":", " ", " ", " ", "a", " ", "b", " ", " ">>,
      field |-> "Header", value |-> <<"a", " ", "b">>],
     [text |-> <<"h", "e", "a", "d", "e", "r", ":", ":", " ", "!", "[", "a", "]", "(", "b", ")", " ", "(", "c", ")">>,
      field |-> "Header", value |-> <<"b">>],
     [text |-> <<"h", "e", "a", "d", "e", "r", ":", ":", " ", "x", " ", "(", " ", "y", " ", ")", " ", "z">>,
      field |-> "Header", value |-> <<" ", "y", " ">>],
     [text |-> <<"h", "e", "a", "d", "e", "r", ":", ":", " ", "(", ")">>,
      field |-> "Header", value |-> <<>>],
     [text |-> <<"h", "e", "a", "d", "e", "r", ":", ":", " ", "(", "a">>,
      field |-> "Header", value |-> <<"(", "a">>],
     [text |-> <<"h", "e", "a", "d", "e", "r", ":", ":", " ", ")", "a", "(">>,
      field |-> "Header", value |-> <<")", "a", "(">>],
     [text |-> <<"h", "e", "a", "d", "e", "r", ":", ":", " ", "!", "[", "a", "]", "(", "b", "(", "1", ")", ".", "j", "p", "g", ")">>,
      field |-> "Header", value |-> <<"b", "(", "1">>],
     [text |-> <<"h", "e", "a", "d", "e", "r", ":", ":">>,
      field |-> "Header", value |-> <<>>]}

RECURSIVE SeqsUpTo(_, _)
SeqsUpTo(S, n) ==
    IF n = 0 THEN {<<>>}
    ELSE SeqsUpTo(S, n - 1) \cup {Append(s, x) : s \in SeqsUpTo(S, n - 1), x \in S}

\* the conversion is not running
ConvIdle ==
    /\ doc = [top |-> NoTop, lists |-> <<>>]
    /\ prog = "convertFile"
    /\ pc = "idle"
    /\ round = 1 /\ phase = 1 /\ wi = 1
    /\ posts = <<>> /\ sources = <<>> /\ processedLists = {}
    /\ metadataLines = <<>> /\ contentBlocks = <<>> /\ foundBlogMarker = FALSE
    /\ allPosts = <<>> /\ nestedResult = <<>> /\ topResult = <<>>
    /\ ranNested = FALSE /\ ranTop = FALSE
    /\ prevPosts = <<>> /\ hasPrev = FALSE
    /\ pi = 1 /\ outputs = <<>>
    /\ files = {} /\ dirs = {} /\ handed = <<>>
    /\ result = NoResult

\* meta := BlogMeta{} before the loop of Parse; the argument is a list of
\* general lines, or one header line after at most one general line
ParserInit ==
    /\ ConvIdle
    /\ fn = "Parse"
    /\ arg \in SeqsUpTo(MetaLines, MaxMetaLines)
               \cup {s \o <<h>> : s \in SeqsUpTo(MetaLines, 1), h \in HeaderLines}
    /\ ret = EmptyMeta
    /\ step = 0
    /\ slept = <<>>
    /\ calls = <<>>

\* one iteration of `for _, line := range lines`
ParseStep ==
    /\ fn = "Parse"
    /\ step < Len(arg)
    /\ ret' = ParseLine(ret, arg[step + 1].text)
    /\ step' = step + 1
    /\ UNCHANGED <<convVars, fn, arg, slept, calls>>

\* return meta
ParseReturn ==
    /\ fn = "Parse"
    /\ step = Len(arg)
    /\ fn' = "Parsed"
    /\ UNCHANGED <<convVars, arg, ret, step, slept, calls>>

ParserNext == ParseStep \/ ParseReturn

ParserSpec == ParserInit /\ [][ParserNext]_vars

\* the value the lines parsed so far are meant to leave in a field: that of
\* the last line meant for it, the empty string when there is none
LastValue(field) ==
    LET idx == {k \in 1..step : arg[k].field = field}
    IN  IF idx = {} THEN <<>>
        ELSE arg[CHOOSE k \in idx : \A m \in idx : m <= k].value

\* C12: a field of the record changes only through a line whose key is
\* exactly date, title, author, header or status; lines that do not match
\* `key:: value`, and lines with another key or another casing, leave the
\* record as it is; a field no line is meant for stays empty; Parse always
\* returns.
C12_ParserFrame ==
    fn \in {"Parse", "Parsed"} =>
        /\ ret.Date = LastValue("Date")
        /\ ret.Title = LastValue("Title")
        /\ ret.Author = LastValue("Author")
        /\ ret.Status = LastValue("Status")
        /\ ret.Summary = <<>>
        /\ (\A k \in 1..step : arg[k].field # "Header") => ret.Header = <<>>
        /\ fn = "Parsed" => step = Len(arg)

\* Parse has returned from a date line followed by a line with the key Date
C12_Witness ==
    /\ fn = "Parsed"
    /\ Len(arg) = 2
    /\ arg[1].field = "Date"
    /\ arg[2].field = "none" /\ Len(arg[2].text) > 0 /\ arg[2].text[1] = "D"
    /\ ret = [EmptyMeta EXCEPT !.Date = DateValue]

\* C13: a header line stores the text between the first "(" and the next
\* ")" of its value, and the trimmed value itself when it has no such pair.
C13_HeaderExtraction ==
    (fn \in {"Parse", "Parsed"} /\ \E k \in 1..step : arg[k].field = "Header") =>
        ret.Header = LastValue("Header")

\* Parse has returned from the header line `![a](b) (c)`
C13_Witness ==
    /\ fn = "Parsed"
    /\ Len(arg) > 0
    /\ arg[Len(arg)] \in HeaderLines
    /\ Cardinality({i \in 1..Len(arg[Len(arg)].text) : arg[Len(arg)].text[i] = "("}) = 2
    /\ ret.Header = <<"b">>

(***************************************************************************)
(* TranslateText: the retry loop around the chat completion call.  An API  *)
(* call ends in an error, in a completion without choices, or in a         *)
(* completion whose first choice is the translation.                       *)
(***************************************************************************)
maxRetries == 3

LangCodes == <<<<"e", "n">>, <<"d", "e">>, <<"e", "s">>, <<"f", "r">>, <<"i", "t">>>>
Langs == {LangCodes[i] : i \in 1..Len(LangCodes)}

\* texts handed to the translator and texts it may answer with
SourceTexts == {<<"H", "i">>, <<"T", "1">>, <<>>}
Translations == {<<"S", "a", "l", "u", "t">>, <<"C", "i", "a", "o">>}

ApiError == [kind |-> "error", text |-> <<>>]
ApiNoChoices == [kind |-> "empty", text |-> <<>>]
ApiAnswer(t) == [kind |-> "answer", text |-> t]

TranslateInit ==
    /\ ConvIdle
    /\ fn = "TranslateText"
    /\ arg \in [text : SourceTexts, sourceLang : Langs, targetLang : Langs]
    /\ ret = [text |-> <<>>, err |-> ""]
    /\ step = 0
    /\ slept = <<>>
    /\ calls = <<>>

\* a loop that gives up at the first failed call (what C14 rules out)
CallFailsGiveUp ==
    /\ fn = "TranslateText"
    /\ step < maxRetries
    /\ calls' = Append(calls, ApiError)
    /\ fn' = "returned"
    /\ ret' = [text |-> <<>>, err |-> "OpenAI API call failed after 3 attempts"]
    /\ UNCHANGED <<slept, step>>
    /\ UNCHANGED <<convVars, arg>>

\* an attempt whose API call fails: wait attempt+1 seconds and go on, or
\* give up when it was the last attempt
CallFails ==
    /\ fn = "TranslateText"
    /\ step < maxRetries
    /\ calls' = Append(calls, ApiError)
    /\ IF step < maxRetries - 1
       THEN /\ slept' = Append(slept, step + 1)
            /\ step' = step + 1
            /\ UNCHANGED <<fn, ret>>
       ELSE /\ fn' = "returned"
            /\ ret' = [text |-> <<>>, err |-> "OpenAI API call failed after 3 attempts"]
            /\ UNCHANGED <<slept, step>>
    /\ UNCHANGED <<convVars, arg>>

\* an attempt whose completion holds no choice
CallReturnsNoChoice ==
    /\ fn = "TranslateText"
    /\ step < maxRetries
    /\ calls' = Append(calls, ApiNoChoices)
    /\ fn' = "returned"
    /\ ret' = [text |-> <<>>, err |-> "no translation returned from API"]
    /\ UNCHANGED <<convVars, arg, slept, step>>

\* an attempt that succeeds: break, return translation, nil
CallSucceeds ==
    /\ fn = "TranslateText"
    /\ step < maxRetries
    /\ \E t \in Translations :
          /\ calls' = Append(calls, ApiAnswer(t))
          /\ ret' = [text |-> t, err |-> ""]
    /\ fn' = "returned"
    /\ UNCHANGED <<convVars, arg, slept, step>>

TranslateNext == CallFails \/ CallReturnsNoChoice \/ CallSucceeds

TranslateSpec == TranslateInit /\ [][TranslateNext]_vars

AllErrors(cs) == \A k \in 1..Len(cs) : cs[k].kind = "error"

\* C14: TranslateText makes at most 3 API calls; after a failed call it waits
\* (1 second, then 2) and calls again; the first call that does not fail ends
\* the loop, and the text of a successful one is what is returned; the error
\* "failed after 3 attempts" is returned after exactly three failed calls.
C14_TranslationRetry ==
    fn \in {"TranslateText", "returned"} =>
        /\ Len(calls) <= 3
        /\ slept = [k \in 1..Len(slept) |-> k]
        /\ fn = "TranslateText" =>
              /\ AllErrors(calls)
              /\ Len(calls) < 3
              /\ Len(slept) = Len(calls)
              /\ ret = [text |-> <<>>, err |-> ""]
        /\ fn = "returned" =>
              /\ Len(calls) >= 1
              /\ AllErrors(SubSeq(calls, 1, Len(calls) - 1))
              /\ Len(slept) = Len(calls) - 1
              /\ LET last == calls[Len(calls)]
                 IN  CASE last.kind = "answer" -> ret = [text |-> last.text, err |-> ""]
                       [] last.kind = "error" ->
                             /\ Len(calls) = 3
                             /\ ret = [text |-> <<>>,
                                       err |-> "OpenAI API call failed after 3 attempts"]
                       [] OTHER -> ret = [text |-> <<>>,
                                          err |-> "no translation returned from API"]

\* the third call succeeded after two failed ones and two waits
C14_Witness ==
    /\ fn = "returned"
    /\ Len(calls) = 3
    /\ calls[1].kind = "error" /\ calls[2].kind = "error" /\ calls[3].kind = "answer"
    /\ slept = <<1, 2>>
    /\ ret.err = "" /\ ret.text = calls[3].text

(***************************************************************************)
(* The functions of the translate tool, each called on inputs of a bounded *)
(* set: step is 0 when the function is called and counts what it has done. *)
(***************************************************************************)
MaxStrLen == 3      \* characters of a string handed to escapeTomlString

\* strings over a backslash, a double quote and a letter
EscChars == {"\\", "\"", "a"}
EscInputs == SeqsUpTo(EscChars, MaxStrLen)

\* quotes first, backslashes second (what C16 rules out)
escapeTomlStringQuotesFirst(s) ==
    ReplaceAllBy(ReplaceAllBy(s, "\"", <<"\\", "\"">>), "\\", <<"\\", "\\">>)

escapeTomlString(s) ==
    ReplaceAllBy(ReplaceAllBy(s, "\\", <<"\\", "\\">>), "\"", <<"\\", "\"">>)

CallEscapeTomlString ==
    /\ fn = "escapeTomlString"
    /\ step = 0
    /\ ret' = escapeTomlString(arg)
    /\ step' = 1
    /\ UNCHANGED <<convVars, fn, arg, slept, calls>>

MaxParaLines == 3   \* lines of a content handed to extractFirstParagraph

\* the lines a content is made of, each with what it is: text, a blank line,
\* or a line that ends the paragraph (a heading or a horizontal rule)
ParaLines ==
    {[text |-> <<"a", "b">>, kind |-> "text"],
     [text |-> <<" ", "c", " ">>, kind |-> "text"],
     [text |-> <<"-", "-", "-", "-">>, kind |-> "text"],
     [text |-> <<>>, kind |-> "blank"],
     [text |-> <<" ", " ">>, kind |-> "blank"],
     [text |-> <<"#", " ", "H">>, kind |-> "stop"],
     [text |-> <<" ", " ", "#", "t">>, kind |-> "stop"],
     [text |-> <<"-", "-", "-">>, kind |-> "stop"],
     [text |-> <<"*", "*", "*">>, kind |-> "stop"],
     [text |-> <<" ", "_", "_", "_">>, kind |-> "stop"]}
ParaInputs == SeqsUpTo(ParaLines, MaxParaLines)

\* strings.Join
JoinSep(ss, sep) ==
    Flatten([i \in 1..Len(ss) |-> IF i = 1 THEN ss[i] ELSE <<sep>> \o ss[i]])

\* the content a sequence of described lines stands for
ContentOf(ls) == JoinSep([i \in 1..Len(ls) |-> ls[i].text], NL)

HorizontalRules == {<<"-", "-", "-">>, <<"*", "*", "*">>, <<"_", "_", "_">>}

\* the loop of extractFirstParagraph: what firstParagraph holds at its end
RECURSIVE CollectParagraph(_, _)
CollectParagraph(lines, firstParagraph) ==
    IF Len(lines) = 0 THEN firstParagraph
    ELSE LET line == Head(lines)
             trimmed == TrimSpace(line)
         IN  IF Len(firstParagraph) = 0 /\ trimmed = <<>>
             THEN CollectParagraph(Tail(lines), firstParagraph)
             ELSE IF Len(firstParagraph) > 0 /\ trimmed = <<>> THEN firstParagraph
             ELSE IF Len(trimmed) > 0 /\ trimmed[1] = "#" THEN firstParagraph
             ELSE IF trimmed \in HorizontalRules THEN firstParagraph
             ELSE CollectParagraph(Tail(lines), Append(firstParagraph, line))

\* a loop that goes on after a heading or a rule (what C17 rules out)
extractFirstParagraphNoStop(content) ==
    LET lines == Split(content, NL)
        kept == SelectSeq(lines, LAMBDA l : TrimSpace(l) # <<>>)
    IN  TrimSpace(JoinSep(kept, " "))

extractFirstParagraph(content) ==
    TrimSpace(JoinSep(CollectParagraph(Split(content, NL), <<>>), " "))

CallExtractFirstParagraph ==
    /\ fn = "extractFirstParagraph"
    /\ step = 0
    /\ ret' = extractFirstParagraph(ContentOf(arg))
    /\ step' = 1
    /\ UNCHANGED <<convVars, fn, arg, slept, calls>>

\* strings.HasPrefix, strings.HasSuffix, strings.TrimPrefix, strings.TrimSuffix
HasPrefix(s, p) == Len(p) <= Len(s) /\ SubSeq(s, 1, Len(p)) = p
HasSuffix(s, p) == Len(p) <= Len(s) /\ SubSeq(s, Len(s) - Len(p) + 1, Len(s)) = p
TrimPrefix(s, p) == IF HasPrefix(s, p) THEN SubSeq(s, Len(p) + 1, Len(s)) ELSE s
TrimSuffix(s, p) == IF HasSuffix(s, p) THEN SubSeq(s, 1, Len(s) - Len(p)) ELSE s

IndexDot == <<"i", "n", "d", "e", "x", ".">>
DotMd == <<".", "m", "d">>

\* file names, each with the language detectLanguage is meant to find in it
\* (the empty string: none), and the directories they may lie in
LangFileNames ==
    {[name |-> IndexDot \o l \o DotMd, lang |-> l] : l \in Langs}
    \cup {[name |-> n, lang |-> <<>>] : n \in
            {<<"b", "l", "o", "g", ".", "m", "d">>,
             <<"i", "n", "d", "e", "x", ".", "m", "d">>,
             <<"i", "n", "d", "e", "x", ".", "d", "e", ".", "t", "x", "t">>,
             <<"i", "n", "d", "e", "x", "-", "d", "e", ".", "m", "d">>,
             <<"b", "l", "o", "g", ".", "d", "e", ".", "m", "d">>,
             <<"x", "i", "n", "d", "e", "x", ".", "d", "e", ".", "m", "d">>,
             <<"i", "n", "d", "e", "x", ".", "d", "e", ".", "m", "d", ".", "b", "a", "k">>,
             <<"i", "n", "d", "e", "x", ".", "e", "n", ".", "d", "e", ".", "m", "d">>,
             <<"i", "n", "d", "e", "x", ".", ".", "m", "d">>,
             <<"i", "n", "d", "e", "x", ".", "D", "E", ".", "m", "d">>,
             <<"i", "n", "d", "e", "x", ".", "p", "t", ".", "m", "d">>,
             <<"d", "e">>,
             <<>>}}
PathDirs ==
    {<<>>, <<"c", "o", "n", "t", "e", "n", "t", "/">>, <<"/", "a", "/", "b", "/">>, <<".", "/">>, <<"i", "n", "d", "e", "x", ".", "d", "e", ".", "m", "d", "/">>}
PathInputs == {[dir |-> d, file |-> f] : d \in PathDirs, f \in LangFileNames}
PathOf(a) == a.dir \o a.file.name

\* a test that looks at the extension only (what C18 rules out)
detectLanguageAnyName(filePath) ==
    LET parts == Split(filePath, "/")
        filename == parts[Len(parts)]
    IN  IF HasSuffix(filename, DotMd) /\ Len(filename) >= 5
           /\ SubSeq(filename, Len(filename) - 4, Len(filename) - 3) \in Langs
        THEN SubSeq(filename, Len(filename) - 4, Len(filename) - 3)
        ELSE <<>>

detectLanguage(filePath) ==
    LET parts == Split(filePath, "/")
        filename == parts[Len(parts)]
        langPart == TrimSuffix(TrimPrefix(filename, IndexDot), DotMd)
    IN  IF HasPrefix(filename, IndexDot) /\ HasSuffix(filename, DotMd) /\ langPart \in Langs
        THEN langPart
        ELSE <<>>

CallDetectLanguage ==
    /\ fn = "detectLanguage"
    /\ step = 0
    /\ ret' = detectLanguage(PathOf(arg))
    /\ step' = 1
    /\ UNCHANGED <<convVars, fn, arg, slept, calls>>

\* a list that leaves the source language in (what C19 rules out)
GetTargetLanguagesAll(sourceLang) == LangCodes

\* the codes of the languages GetTargetLanguages returns, in its order
GetTargetLanguages(sourceLang) == SelectSeq(LangCodes, LAMBDA c : c # sourceLang)

\* source languages: the supported ones, and codes that are not
SourceLangs == Langs \cup {<<"p", "t">>, <<"E", "N">>, <<>>}

CallGetTargetLanguages ==
    /\ fn = "GetTargetLanguages"
    /\ step = 0
    /\ ret' = GetTargetLanguages(arg)
    /\ step' = 1
    /\ UNCHANGED <<convVars, fn, arg, slept, calls>>

(***************************************************************************)
(* Hugo files: ParseMarkdownFile and SerializeToMarkdown.  toml.Unmarshal  *)
(* is modelled for the front matter the tool reads and writes: lines       *)
(* `key = value` with basic strings ("...", with the escapes \\ \" \n \t), *)
(* literal strings ('...') and booleans, and the table [params].           *)
(***************************************************************************)
EmptyFrontmatter ==
    [Date |-> <<>>, LastMod |-> <<>>, Draft |-> FALSE, Title |-> <<>>,
     Summary |-> <<>>, Params |-> <<>>]

\* a TOML value that could not be read
BadValue == [ok |-> FALSE, kind |-> "none", val |-> <<>>]

\* the characters of a basic string from position i on, up to its closing
\* quote; nothing but blanks may follow the quote
RECURSIVE ScanBasicString(_, _, _)
ScanBasicString(s, i, acc) ==
    IF i > Len(s) THEN BadValue
    ELSE IF s[i] = "\""
    THEN IF TrimSpace(SubSeq(s, i + 1, Len(s))) = <<>>
         THEN [ok |-> TRUE, kind |-> "string", val |-> acc]
         ELSE BadValue
    ELSE IF s[i] = "\\"
    THEN IF i + 1 > Len(s) THEN BadValue
         ELSE IF s[i + 1] = "\\" THEN ScanBasicString(s, i + 2, Append(acc, "\\"))
         ELSE IF s[i + 1] = "\"" THEN ScanBasicString(s, i + 2, Append(acc, "\""))
         ELSE IF s[i + 1] = "n" THEN ScanBasicString(s, i + 2, Append(acc, "\n"))
         ELSE IF s[i + 1] = "t" THEN ScanBasicString(s, i + 2, Append(acc, "\t"))
         ELSE BadValue
    ELSE ScanBasicString(s, i + 1, Append(acc, s[i]))

\* a literal string: everything up to the next single quote, no escapes
ScanLiteralString(s) ==
    LET closes == {j \in 2..Len(s) : s[j] = "'"}
    IN  IF closes = {} THEN BadValue
        ELSE LET j == CHOOSE a \in closes : \A b \in closes : a <= b
             IN  IF TrimSpace(SubSeq(s, j + 1, Len(s))) = <<>>
                 THEN [ok |-> TRUE, kind |-> "string", val |-> SubSeq(s, 2, j - 1)]
                 ELSE BadValue

TomlValue(v) ==
    IF Len(v) = 0 THEN BadValue
    ELSE IF v[1] = "\"" THEN ScanBasicString(v, 2, <<>>)
    ELSE IF v[1] = "'" THEN ScanLiteralString(v)
    ELSE IF v = <<"t", "r", "u", "e">> THEN [ok |-> TRUE, kind |-> "bool", val |-> TRUE]
    ELSE IF v = <<"f", "a", "l", "s", "e">> THEN [ok |-> TRUE, kind |-> "bool", val |-> FALSE]
    ELSE BadValue

\* decoding one key of the root table into the Frontmatter struct
SetFrontmatter(fm, key, v) ==
    CASE key = KeyDate /\ v.kind = "string" -> [ok |-> TRUE, fm |-> [fm EXCEPT !.Date = v.val]]
      [] key = <<"l", "a", "s", "t", "m", "o", "d">> /\ v.kind = "string" ->
            [ok |-> TRUE, fm |-> [fm EXCEPT !.LastMod = v.val]]
      [] key = KeyTitle /\ v.kind = "string" -> [ok |-> TRUE, fm |-> [fm EXCEPT !.Title = v.val]]
      [] key = <<"s", "u", "m", "m", "a", "r", "y">> /\ v.kind = "string" ->
            [ok |-> TRUE, fm |-> [fm EXCEPT !.Summary = v.val]]
      [] key = Draft /\ v.kind = "bool" -> [ok |-> TRUE, fm |-> [fm EXCEPT !.Draft = v.val]]
      [] key \in {KeyDate, KeyTitle, Draft, <<"l", "a", "s", "t", "m", "o", "d">>,
                  <<"s", "u", "m", "m", "a", "r", "y">>} -> [ok |-> FALSE, fm |-> fm]
      [] OTHER -> [ok |-> TRUE, fm |-> fm]

\* one line of the front matter; st = [ok, fm, table]
TomlLine(st, line) ==
    LET t == TrimSpace(line)
        eqs == {i \in 1..Len(t) : t[i] = "="}
    IN  IF ~st.ok \/ t = <<>> \/ t[1] = "#" THEN st
        ELSE IF t[1] = "["
        THEN IF t[Len(t)] = "]"
             THEN [st EXCEPT !.table = SubSeq(t, 2, Len(t) - 1)]
             ELSE [st EXCEPT !.ok = FALSE]
        ELSE IF eqs = {} THEN [st EXCEPT !.ok = FALSE]
        ELSE LET e == CHOOSE a \in eqs : \A b \in eqs : a <= b
                 key == TrimSpace(SubSeq(t, 1, e - 1))
                 v == TomlValue(TrimSpace(SubSeq(t, e + 1, Len(t))))
             IN  IF ~v.ok \/ key = <<>> THEN [st EXCEPT !.ok = FALSE]
                 ELSE IF st.table = <<>>
                 THEN LET r == SetFrontmatter(st.fm, key, v)
                      IN  [st EXCEPT !.ok = r.ok, !.fm = r.fm]
                 ELSE IF st.table = <<"p", "a", "r", "a", "m", "s">>
                 THEN IF v.kind = "string"
                      THEN [st EXCEPT !.fm.Params =
                                Append(st.fm.Params, [key |-> key, value |-> v.val])]
                      ELSE [st EXCEPT !.ok = FALSE]
                 ELSE st

RECURSIVE TomlLines(_, _)
TomlLines(st, lines) ==
    IF Len(lines) = 0 THEN st ELSE TomlLines(TomlLine(st, Head(lines)), Tail(lines))

\* toml.Unmarshal([]byte(frontmatterStr), &fm)
tomlUnmarshal(text) ==
    TomlLines([ok |-> TRUE, fm |-> EmptyFrontmatter, table |-> <<>>], Split(text, NL))

Plus3 == <<"+", "+", "+">>

\* strings.SplitN(s, "+++", 2): <<s>> when s holds no "+++"
SplitAtPlus3(s) ==
    LET at == {i \in 1..(Len(s) - 2) : SubSeq(s, i, i + 2) = Plus3}
    IN  IF at = {} THEN <<s>>
        ELSE LET i == CHOOSE a \in at : \A b \in at : a <= b
             IN  <<SubSeq(s, 1, i - 1), SubSeq(s, i + 3, Len(s))>>

NoFile == [err |-> "not parsed", Frontmatter |-> EmptyFrontmatter, Content |-> <<>>,
           SourceLang |-> <<>>]
FileError(msg) == [NoFile EXCEPT !.err = msg]

ParseMarkdownFile(filePath, readOk, data) ==
    IF ~readOk THEN FileError("reading file")
    ELSE IF ~HasPrefix(data, Plus3)
    THEN FileError("file does not start with TOML frontmatter (+++)")
    ELSE LET parts == SplitAtPlus3(SubSeq(data, 4, Len(data)))
         IN  IF Len(parts) # 2 THEN FileError("malformed frontmatter: missing closing +++")
             ELSE LET toml == tomlUnmarshal(TrimSpace(parts[1]))
                      sourceLang == detectLanguage(filePath)
                  IN  IF ~toml.ok THEN FileError("parsing frontmatter")
                      ELSE IF sourceLang = <<>>
                      THEN FileError("could not detect language from filename")
                      ELSE [err |-> "", Frontmatter |-> toml.fm,
                            Content |-> TrimSpace(parts[2]), SourceLang |-> sourceLang]

\* fmt.Sprintf("<key> = \"%s\"\n", escapeTomlString(value))
TomlStringLine(key, value) ==
    key \o <<" ", "=", " ", "\"">> \o escapeTomlString(value) \o <<"\"", NL>>

SerializeToMarkdown(mf) ==
    LET fm == mf.Frontmatter
    IN  Plus3 \o <<NL>>
        \o TomlStringLine(KeyDate, fm.Date)
        \o TomlStringLine(<<"l", "a", "s", "t", "m", "o", "d">>, fm.LastMod)
        \o Draft \o <<" ", "=", " ">>
        \o (IF fm.Draft THEN <<"t", "r", "u", "e">> ELSE <<"f", "a", "l", "s", "e">>) \o <<NL>>
        \o TomlStringLine(KeyTitle, fm.Title)
        \o TomlStringLine(<<"s", "u", "m", "m", "a", "r", "y">>, fm.Summary)
        \o (IF Len(fm.Params) > 0
            THEN <<"[", "p", "a", "r", "a", "m", "s", "]", NL>>
                 \o Flatten([k \in 1..Len(fm.Params) |->
                        <<" ", " ">> \o TomlStringLine(fm.Params[k].key, fm.Params[k].value)])
            ELSE <<>>)
        \o Plus3 \o <<NL, NL>>
        \o mf.Content \o <<NL>>

\* the front matter values of the input files: the TOML text of the value
\* and the string it stands for
TitleTokens ==
    {[token |-> <<"\"", "T", "e", "s", "t", " ", "T", "i", "t", "l", "e", "\"">>,
      value |-> <<"T", "e", "s", "t", " ", "T", "i", "t", "l", "e">>],
     [token |-> <<"\"", "a", " ", "\\", "\"", "q", "\\", "\"", " ", "b", "\"">>,
      value |-> <<"a", " ", "\"", "q", "\"", " ", "b">>],
     [token |-> <<"\"", "C", ":", "\\", "\\", "x", "\"">>,
      value |-> <<"C", ":", "\\", "x">>],
     [token |-> <<"'", "C", ":", "\\", "x", "'">>,
      value |-> <<"C", ":", "\\", "x">>],
     [token |-> <<"\"", "L", "1", "\\", "n", "L", "2", "\"">>,
      value |-> <<"L", "1", "\n", "L", "2">>]}
SummaryTokens ==
    {[token |-> <<"\"", "T", "e", "s", "t", " ", "S", "u", "m", "m", "a", "r", "y", "\"">>,
      value |-> <<"T", "e", "s", "t", " ", "S", "u", "m", "m", "a", "r", "y">>],
     [token |-> <<"\"", "\"">>,
      value |-> <<>>],
     [token |-> <<"\"", "H", "e", " ", "s", "a", "i", "d", " ", "\\", "\"", "x", "\\", "\"", "\"">>,
      value |-> <<"H", "e", " ", "s", "a", "i", "d", " ", "\"", "x", "\"">>]}
FileContents ==
    {<<"T", "h", "e", " ", "c", "o", "n", "t", "e", "n", "t", ".", "\n", "\n", "#", "#", " ", "S", "e", "c", "t", "i", "o", "n", "\n", "\n", "M", "o", "r", "e", ".">>,
     <<" ", " ", "B", "o", "d", "y", " ", "\n">>,
     <<"+", "+", "+", " ", "x">>,
     <<>>}
FileShapes == {"complete", "no opening", "no closing"}
FileNames == {f \in LangFileNames : f.lang \in {<<"e", "n">>, <<"d", "e">>}
                                    \/ f.name \in {<<"b", "l", "o", "g", ".", "m", "d">>, <<"i", "n", "d", "e", "x", ".", "m", "d">>}}

FileInputs ==
    [dir : {<<"c", "o", "n", "t", "e", "n", "t", "/">>}, file : FileNames, title : TitleTokens,
     summary : SummaryTokens, content : FileContents, shape : FileShapes,
     author : BOOLEAN]

\* the bytes of the file an input stands for
FileData(a) ==
    (IF a.shape = "no opening" THEN <<"-", "-", "-", NL>> ELSE Plus3 \o <<NL>>)
    \o KeyDate \o <<" ", "=", " ", "\"">> \o DateValue \o <<"\"", NL>>
    \o Draft \o <<" ", "=", " ", "f", "a", "l", "s", "e", NL>>
    \o KeyTitle \o <<" ", "=", " ">> \o a.title.token \o <<NL>>
    \o <<"s", "u", "m", "m", "a", "r", "y", " ", "=", " ">> \o a.summary.token \o <<NL>>
    \o (IF a.author
        THEN <<"[", "p", "a", "r", "a", "m", "s", "]", NL, " ", " ">>
             \o KeyAuthor \o <<" ", "=", " ", "\"", "A", "l", "\"", NL>>
        ELSE <<>>)
    \o (IF a.shape = "no closing" THEN <<>> ELSE Plus3 \o <<NL, NL>>)
    \o (IF a.shape = "no closing" /\ HasPrefix(a.content, Plus3) THEN <<>> ELSE a.content)

\* parsed, err := ParseMarkdownFile(testPath)
ParseFile ==
    /\ fn = "ParseMarkdownFile"
    /\ step = 0
    /\ \E readOk \in BOOLEAN :
          ret' = [ret EXCEPT !.parsed = ParseMarkdownFile(PathOf(arg), readOk, FileData(arg))]
    /\ step' = 1
    /\ UNCHANGED <<convVars, fn, arg, slept, calls>>

\* serialized := parsed.SerializeToMarkdown()
SerializeFile ==
    /\ fn = "ParseMarkdownFile"
    /\ step = 1
    /\ ret.parsed.err = ""
    /\ ret' = [ret EXCEPT !.serialized = SerializeToMarkdown(ret.parsed)]
    /\ step' = 2
    /\ UNCHANGED <<convVars, fn, arg, slept, calls>>

\* parsed2, err := ParseMarkdownFile(testPath2), the file holding `serialized`
ParseFileAgain ==
    /\ fn = "ParseMarkdownFile"
    /\ step = 2
    /\ ret' = [ret EXCEPT !.reparsed = ParseMarkdownFile(PathOf(arg), TRUE, ret.serialized)]
    /\ step' = 3
    /\ UNCHANGED <<convVars, fn, arg, slept, calls>>

ToolFns ==
    {"escapeTomlString", "extractFirstParagraph", "detectLanguage", "GetTargetLanguages",
     "ParseMarkdownFile"}

ToolInputs(f) ==
    CASE f = "escapeTomlString" -> EscInputs
      [] f = "extractFirstParagraph" -> ParaInputs
      [] f = "detectLanguage" -> PathInputs
      [] f = "GetTargetLanguages" -> SourceLangs
      [] OTHER -> FileInputs

ToolInit ==
    /\ ConvIdle
    /\ fn \in ToolFns
    /\ arg \in ToolInputs(fn)
    /\ ret = IF fn = "ParseMarkdownFile"
             THEN [parsed |-> NoFile, serialized |-> <<>>, reparsed |-> NoFile]
             ELSE <<>>
    /\ step = 0
    /\ slept = <<>>
    /\ calls = <<>>

ToolNext ==
    \/ CallEscapeTomlString
    \/ CallExtractFirstParagraph
    \/ CallDetectLanguage
    \/ CallGetTargetLanguages
    \/ ParseFile
    \/ SerializeFile
    \/ ParseFileAgain

ToolSpec == ToolInit /\ [][ToolNext]_vars

(***************************************************************************)
(* Properties of the translate tool's functions (ToolSpec).                *)
(***************************************************************************)
RoundTripDone == fn = "ParseMarkdownFile" /\ step = 3

SameAfterRoundTrip ==
    /\ ret.reparsed.err = ""
    /\ ret.reparsed.Frontmatter.Date = ret.parsed.Frontmatter.Date
    /\ ret.reparsed.Frontmatter.Title = ret.parsed.Frontmatter.Title
    /\ ret.reparsed.Frontmatter.Summary = ret.parsed.Frontmatter.Summary
    /\ TrimSpace(ret.reparsed.Content) = TrimSpace(ret.parsed.Content)

\* C15: a file with TOML front matter that was parsed, serialized with
\* SerializeToMarkdown and parsed again yields, the second time, the Date,
\* Title, Summary and trimmed Content of the first parse.
C15_RoundTrip == RoundTripDone => SameAfterRoundTrip

\* the first parse yields the strings the front matter values stand for
ParsedAsWritten ==
    (fn = "ParseMarkdownFile" /\ step >= 1 /\ ret.parsed.err = "") =>
        /\ ret.parsed.Frontmatter.Date = DateValue
        /\ ret.parsed.Frontmatter.Title = arg.title.value
        /\ ret.parsed.Frontmatter.Summary = arg.summary.value
        /\ ret.parsed.Content = TrimSpace(arg.content)
        /\ ret.parsed.SourceLang = arg.file.lang

\* the round trip of the files whose Title holds no line break
RoundTripOfOneLineTitles ==
    (RoundTripDone /\ ~Contains(arg.title.value, NL)) => SameAfterRoundTrip

\* what one character becomes in a TOML basic string
EscapedChar(c) ==
    IF c = "\\" THEN <<"\\", "\\">> ELSE IF c = "\"" THEN <<"\\", "\"">> ELSE <<c>>

\* C16: escapeTomlString returns its input with every backslash doubled and
\* every double quote preceded by one backslash (the backslash added for a
\* quote is not doubled); a string with neither is returned unchanged.
C16_EscapeTomlString ==
    (fn = "escapeTomlString" /\ step = 1) =>
        /\ ret = Flatten([i \in 1..Len(arg) |-> EscapedChar(arg[i])])
        /\ (\A i \in 1..Len(arg) : arg[i] \notin {"\\", "\""}) => ret = arg

\* a quote followed by a backslash became \" \\
C16_Witness ==
    /\ fn = "escapeTomlString"
    /\ step = 1
    /\ arg = <<"\"", "\\", "a">>
    /\ ret = <<"\\", "\"", "\\", "\\", "a">>

\* the described lines without the blank ones at their head
RECURSIVE SkipBlank(_)
SkipBlank(ls) ==
    IF Len(ls) > 0 /\ Head(ls).kind = "blank" THEN SkipBlank(Tail(ls)) ELSE ls

\* the texts of the lines up to the first one that is not text
RECURSIVE TextRun(_)
TextRun(ls) ==
    IF Len(ls) > 0 /\ Head(ls).kind = "text"
    THEN <<Head(ls).text>> \o TextRun(Tail(ls))
    ELSE <<>>

\* C17: extractFirstParagraph skips the leading blank lines, collects the
\* lines up to the first blank line, heading line or horizontal rule, and
\* returns them joined by single spaces and trimmed; a content of blank
\* lines only, or the empty content, gives the empty string.
C17_FirstParagraph ==
    (fn = "extractFirstParagraph" /\ step = 1) =>
        /\ ret = TrimSpace(JoinSep(TextRun(SkipBlank(arg)), " "))
        /\ (\A i \in 1..Len(arg) : arg[i].kind = "blank") => ret = <<>>

\* a blank line, two lines of text and a heading: the two lines are joined
C17_Witness ==
    /\ fn = "extractFirstParagraph"
    /\ step = 1
    /\ Len(arg) = 3
    /\ arg[1].kind = "blank" /\ arg[2].kind = "text" /\ arg[3].kind = "stop"
    /\ ret = TrimSpace(arg[2].text)
    /\ ret # <<>>

NoLanguage == "could not detect language from filename"

\* C18: detectLanguage returns the code of index.<code>.md when that is the
\* last component of the path and the code is a supported one, and the empty
\* string for every other name; ParseMarkdownFile fails for such a name.
C18_DetectLanguage ==
    /\ (fn = "detectLanguage" /\ step = 1) => ret = arg.file.lang
    /\ (fn = "ParseMarkdownFile" /\ step >= 1) =>
          /\ arg.file.lang = <<>> => ret.parsed.err # ""
          /\ ret.parsed.err = NoLanguage => arg.file.lang = <<>>
          /\ (arg.file.lang = <<>> /\ arg.shape = "complete")
                => ret.parsed.err \in {NoLanguage, "reading file"}

\* index.de.md below two directories gave "de"
C18_Witness ==
    /\ fn = "detectLanguage"
    /\ step = 1
    /\ arg.dir = <<"/", "a", "/", "b", "/">>
    /\ arg.file.name = IndexDot \o <<"d", "e">> \o DotMd
    /\ ret = <<"d", "e">>

\* a complete file named blog.md was refused for its name
C18_FileWitness ==
    /\ fn = "ParseMarkdownFile"
    /\ step = 1
    /\ arg.file.lang = <<>>
    /\ ret.parsed.err = NoLanguage

\* C19: GetTargetLanguages returns every supported language but the source,
\* each once: the source is not in the result, and the result of a
\* supported source has 4 entries.
C19_TargetLanguages ==
    (fn = "GetTargetLanguages" /\ step = 1) =>
        /\ \A i \in 1..Len(ret) : ret[i] # arg /\ ret[i] \in Langs
        /\ \A l \in Langs \ {arg} : Cardinality({i \in 1..Len(ret) : ret[i] = l}) = 1
        /\ arg \in Langs => Len(ret) = 4

\* the targets of "de" are the four other languages
C19_Witness ==
    /\ fn = "GetTargetLanguages"
    /\ step = 1
    /\ arg = <<"d", "e">>
    /\ Len(ret) = 4
    /\ \A i \in 1..4 : ret[i] # <<"d", "e">>

(***************************************************************************)
(* Content blocks of a list post (Spec).                                   *)
(***************************************************************************)
\* the items after the first of the list the extraction resolves a described
\* list to: the marked list itself below at most one wrapper; below more
\* wrappers the descent ends at the innermost wrapper list, which has one item
ItemsAfterFirst(l) == IF l.wrap <= 1 THEN l.items ELSE <<>>

\* the content block an item stands for, for the items of one text block
KnownKinds == {"A", "B", "two", "second", "empty"}
BlockText(kind) ==
    CASE kind = "A" -> TextA
      [] kind = "B" -> TextB
      [] kind = "two" -> TwoLines
      [] kind = "second" -> SecondBlock
      [] OTHER -> <<>>

\* C20 as the specification words it: every item after the first of the
\* resolved list yields exactly one content block, so a list post has as
\* many content blocks as the resolved list has items after the first.
C20_OneBlockPerItem ==
    (pc = "extracted" /\ ranNested) =>
        \A k \in 1..Len(ExactLists(doc)) :
            /\ k <= Len(nestedResult)
            /\ Len(nestedResult[k].Content)
                  = Len(ItemsAfterFirst(doc.lists[ExactLists(doc)[k]]))

\* C20: the first item of the resolved list yields the metadata lines only,
\* and the items after it yield the content blocks in document order: one
\* block per item in NestedListExtractor.extractFromList, one block per item
\* whose reconstructed text is not empty in extractListPost, which leaves
\* out the items without text.
C20_ContentBlocks ==
    (pc = "extracted" /\ ranNested) =>
        \A k \in 1..Len(ExactLists(doc)) :
            LET l == doc.lists[ExactLists(doc)[k]]
                items == ItemsAfterFirst(l)
                kept == IF prog = "convertFile"
                        THEN SelectSeq(items, LAMBDA x : x # "empty")
                        ELSE items
            IN  /\ k <= Len(nestedResult)
                /\ Len(nestedResult[k].Content) = Len(kept)
                /\ \A i \in 1..Len(kept) :
                      /\ i <= Len(nestedResult[k].Content)
                      /\ IF kept[i] \in KnownKinds
                         THEN nestedResult[k].Content[i] = BlockText(kept[i])
                         ELSE nestedResult[k].Content[i] # <<>>
                /\ nestedResult[k].Meta.Date = DateValue
                /\ l.wrap <= 1 => nestedResult[k].Meta.Title = TitleOf(l.id)

\* extractListPost read a list of a text item, an empty item and a text item
\* and kept the two blocks with text
C20_Witness ==
    /\ pc = "extracted"
    /\ prog = "convertFile"
    /\ ranNested
    /\ doc \in EmptyItemDocs
    /\ doc.lists[1].items = <<"A", "empty", "B">>
    /\ Len(nestedResult) = 1
    /\ nestedResult[1].Content = <<TextA, TextB>>

\* extractFromList read the same list and kept three blocks, one of them empty
C20_StrategyWitness ==
    /\ pc = "extracted"
    /\ prog = "Convert"
    /\ doc \in EmptyItemDocs
    /\ doc.lists[1].items = <<"A", "empty", "B">>
    /\ Len(nestedResult) = 1
    /\ nestedResult[1].Content = <<TextA, <<>>, TextB>>

(***************************************************************************)
(* The top-level walk (Spec).                                              *)
(***************************************************************************)
\* whether list i of a described document is entered after the marker flag
\* was set: below the free-standing paragraph when that carries the marker,
\* otherwise below a loose list whose metadata paragraph carries it
AfterFlag(d, i) ==
    IF d.top.mark = "exact" THEN ~d.lists[i].before
    ELSE \E j \in 1..(i - 1) : d.lists[j].loose /\ d.lists[j].mark = "exact"

\* the items of the outermost list of a described list, by kind
TopItems(l) ==
    IF l.wrap > 0 THEN <<"wrapper">>
    ELSE (IF l.mark = "plain" THEN <<>> ELSE <<"meta">>) \o l.items

\* the items the top-level walk is to append, in document order
ExpectedTopItems(d) ==
    Flatten([i \in 1..Len(d.lists) |-> IF AfterFlag(d, i) THEN TopItems(d.lists[i]) ELSE <<>>])

\* C21: the content blocks of the top-level post come only from lists
\* entered after the marker flag was set and whose parent is no list item:
\* each item of such a list gives one block, in document order; lists
\* entered before the flag give nothing, and nested lists give no blocks of
\* their own.
C21_TopLevelContent ==
    /\ (pc \in {"top", "top2"} /\ ~foundBlogMarker) => contentBlocks = <<>>
    /\ (pc = "extracted" /\ ranTop /\ Len(topResult) = 1) =>
          LET want == ExpectedTopItems(doc)
              got == topResult[1].Content
          IN  /\ Len(got) = Len(want)
              /\ \A i \in 1..Len(want) :
                    /\ i <= Len(got)
                    /\ IF want[i] \in KnownKinds THEN got[i] = BlockText(want[i])
                       ELSE got[i] # <<>>

\* a list above the marker paragraph gave nothing; below it a list with a
\* sub-list gave two blocks and a wrapped list one
C21_Witness ==
    /\ pc = "extracted"
    /\ prog = "Convert"
    /\ doc \in BeforeDocs
    /\ doc.top.mark = "exact"
    /\ Len(doc.lists) = 3
    /\ Len(topResult) = 1
    /\ Len(topResult[1].Content) = 3
    /\ topResult[1].Content[2] = TextB

NoLooseList(d) == \A i \in 1..Len(d.lists) : ~d.lists[i].loose

\* C22: the top-level walk looks at top-level paragraphs only: a paragraph
\* inside a list item adds no line to the metadata buffer and does not set
\* the marker flag, so a document whose marker lies in a list only yields no
\* top-level post.
C22_TopLevelScope ==
    /\ (pc \in {"top", "top2"} /\ doc.top.mark = "absent") =>
          metadataLines = <<>> /\ ~foundBlogMarker
    /\ (pc = "extracted" /\ ranTop /\ doc.top.mark # "exact") => topResult = <<>>

\* the same for the documents whose lists are all tight: their items hold
\* TextBlocks, which the walk does not look at
TightListsOutOfScope ==
    NoLooseList(doc) =>
        /\ (pc \in {"top", "top2"} /\ doc.top.mark = "absent") =>
              metadataLines = <<>> /\ ~foundBlogMarker
        /\ (pc = "extracted" /\ ranTop /\ doc.top.mark # "exact") => topResult = <<>>

\* what the loose list of the failing input leads to in convertFile: the
\* top-level post alone, without content
LooseListTakenForTopLevel ==
    /\ pc = "extracted"
    /\ prog = "convertFile"
    /\ doc.top.mark = "absent"
    /\ Len(doc.lists) = 1 /\ doc.lists[1].loose /\ doc.lists[1].wrap = 0
    /\ doc.lists[1].items = <<"A", "B">>
    /\ ~ranNested
    /\ Len(allPosts) = 1 /\ allPosts[1].Content = <<>>
    /\ allPosts[1].Meta.Title = TitleOf(1)

(***************************************************************************)
(* The text reconstructors called on one list item (ReconSpec).  A child   *)
(* of the item comes with the text each reconstructor is to emit for it:   *)
(* nodeText for extractNodeText, text for extractText before its trimming, *)
(* and with the number of direct items when it is a list.                  *)
(***************************************************************************)
MaxKids == 2        \* children of the item

ReconChildren ==
    {[node |-> Node("TextBlock", 0, <<"A">>, <<"A">>, <<>>),
      nodeText |-> <<"A">>,
      text |-> <<"A">>,
      items |-> 0],
     [node |-> Node("TextBlock", 0, <<"b", " ", "c">>, <<"*", "*", "b", "*", "*", " ", "c">>, <<>>),
      nodeText |-> <<"*", "*", "b", "*", "*", " ", "c">>,
      text |-> <<"*", "*", "b", "*", "*", " ", "c">>,
      items |-> 0],
     [node |-> Node("TextBlock", 0, <<"x", "\n", "y">>, <<"x", "\n", "y">>, <<>>),
      nodeText |-> <<"x", "\n", "y">>,
      text |-> <<"x", "\n", "y">>,
      items |-> 0],
     [node |-> Node("CodeBlock", 0, <<>>, <<" ", " ", "c", " ", "\n">>, <<>>),
      nodeText |-> <<" ", " ", "c", " ", "\n">>,
      text |-> <<" ", " ", "c", " ", "\n">>,
      items |-> 0],
     [node |-> Node("Heading", 1, <<"H">>, <<"H">>, <<>>),
      nodeText |-> <<"#", " ", "H">>,
      text |-> <<"#", " ", "H", "\n">>,
      items |-> 0],
     [node |-> Node("Heading", 3, <<"T", " ", "i">>, <<"T", " ", "*", "i", "*">>, <<>>),
      nodeText |-> <<"#", "#", "#", " ", "T", " ", "*", "i", "*">>,
      text |-> <<"#", "#", "#", " ", "T", " ", "i", "\n">>,
      items |-> 0],
     [node |-> List(<<ListItem(<<Node("TextBlock", 0, <<"B">>, <<"B">>, <<>>)>>),
                     ListItem(<<Node("TextBlock", 0, <<"A">>, <<"*", "*", "A", "*", "*">>, <<>>),
                                List(<<ListItem(<<Node("TextBlock", 0, <<"C">>, <<"C">>, <<>>)>>)>>)>>)>>),
      nodeText |-> <<"\n", "*", " ", "B", "\n", "*", " ", "*", "*", "A", "*", "*", "\n">>,
      text |-> <<"\n", "*", " ", "B", "\n", "*", " ", "A", "C", "\n">>,
      items |-> 2],
     [node |-> List(<<ListItem(<<Node("TextBlock", 0, <<"x", "\n", "y">>, <<"x", "\n", "y">>, <<>>)>>)>>),
      nodeText |-> <<"\n", "*", " ", "x", "\n", "y", "\n">>,
      text |-> <<"\n", "*", " ", "x", "\n", "y", "\n">>,
      items |-> 1]}
ReconInputs == SeqsUpTo(ReconChildren, MaxKids)

\* the list item the reconstructor is called on
ItemOf(a) == ListItem([i \in 1..Len(a) |-> a[i].node])

ReconInit ==
    /\ ConvIdle
    /\ fn \in {"extractNodeText", "extractText"}
    /\ arg \in ReconInputs
    /\ ret = <<>>
    /\ step = 0
    /\ slept = <<>>
    /\ calls = <<>>

CallExtractNodeText ==
    /\ fn = "extractNodeText"
    /\ step = 0
    /\ ret' = extractNodeText(ItemOf(arg))
    /\ step' = 1
    /\ UNCHANGED <<convVars, fn, arg, slept, calls>>

CallExtractText ==
    /\ fn = "extractText"
    /\ step = 0
    /\ ret' = extractText(ItemOf(arg))
    /\ step' = 1
    /\ UNCHANGED <<convVars, fn, arg, slept, calls>>

ReconNext == CallExtractNodeText \/ CallExtractText

ReconSpec == ReconInit /\ [][ReconNext]_vars

ReconDone == fn \in {"extractNodeText", "extractText"} /\ step = 1
HasKid(kind) == \E i \in 1..Len(arg) : arg[i].node.kind = kind

\* what the children are to give together, in their order
ExpectedBlock ==
    IF fn = "extractNodeText"
    THEN Flatten([i \in 1..Len(arg) |-> arg[i].nodeText])
    ELSE TrimSpace(Flatten([i \in 1..Len(arg) |-> arg[i].text]))

\* the lines of s that start with "* "
BulletLines(s) ==
    Cardinality({i \in 1..(Len(s) - 1) :
        s[i] = "*" /\ s[i + 1] = " " /\ (i = 1 \/ s[i - 1] = NL)})
CountOf(s, c) == Cardinality({i \in 1..Len(s) : s[i] = c})
\* the direct items of the list children, and the levels of the children
RECURSIVE SumItems(_)
SumItems(a) == IF Len(a) = 0 THEN 0 ELSE Head(a).items + SumItems(Tail(a))
RECURSIVE SumLevels(_)
SumLevels(a) == IF Len(a) = 0 THEN 0 ELSE Head(a).node.level + SumLevels(Tail(a))

\* C23: for a child of kind List the output gets a newline and then, for
\* each item of that list in order, "* ", the item's text and a newline: a
\* sub-list of any depth becomes one level of bullets, as many as the
\* sub-list has direct items.
C23_NestedListBullets ==
    (ReconDone /\ HasKid("List")) =>
        /\ ret = ExpectedBlock
        /\ BulletLines(ret) = SumItems(arg)

\* extractNodeText flattened a list of two items, the second with a list of
\* its own, into two bullets
C23_Witness ==
    /\ ReconDone
    /\ fn = "extractNodeText"
    /\ Len(arg) = 2
    /\ arg[1].node.kind = "TextBlock" /\ arg[2].items = 2
    /\ BulletLines(ret) = 2
    /\ ret = arg[1].nodeText \o arg[2].nodeText

\* C24: for a child of kind Heading of level k the output holds k "#"
\* characters, one space and the heading's text, in that order, where the
\* child stands among its siblings.
C24_Heading ==
    (ReconDone /\ HasKid("Heading")) =>
        /\ ret = ExpectedBlock
        /\ CountOf(ret, "#") = SumLevels(arg)

\* extractText emitted a level 3 heading after a text block
C24_Witness ==
    /\ ReconDone
    /\ fn = "extractText"
    /\ Len(arg) = 2
    /\ arg[1].node.kind = "TextBlock" /\ arg[2].node.level = 3
    /\ CountOf(ret, "#") = 3
    /\ ret = arg[1].text \o <<"#", "#", "#", " ", "T", " ", "i">>

OnlyOtherKids == ~HasKid("Heading") /\ ~HasKid("List")
RawLines == Flatten([i \in 1..Len(arg) |-> arg[i].node.raw])

\* C25 as the specification words it: a child that is neither Heading nor
\* List gives the raw bytes of its lines, in child order; the returned block
\* has no whitespace at its ends and keeps the whitespace inside; a node
\* without children gives the empty string.
C25_TrimmedBlock ==
    ReconDone =>
        /\ OnlyOtherKids => ret = TrimSpace(RawLines)
        /\ ret = TrimSpace(ret)
        /\ arg = <<>> => ret = <<>>

\* C25: a child that is neither Heading nor List gives the raw bytes of its
\* lines, in child order, and a node without children gives the empty
\* string; extractText returns the block without whitespace at its ends and
\* with the whitespace inside kept, extractNodeText returns it untrimmed.
C25_RawLinesAndBoundary ==
    ReconDone =>
        /\ OnlyOtherKids =>
              ret = (IF fn = "extractText" THEN TrimSpace(RawLines) ELSE RawLines)
        /\ fn = "extractText" => ret = TrimSpace(ret)
        /\ ret = ExpectedBlock
        /\ arg = <<>> => ret = <<>>

\* extractText returned a text block with inline markup and a code block:
\* the markup and the spaces between the two are kept, the end is trimmed
C25_Witness ==
    /\ ReconDone
    /\ fn = "extractText"
    /\ Len(arg) = 2
    /\ arg[1].node.raw # arg[1].node.text
    /\ arg[2].node.kind = "CodeBlock"
    /\ ret = arg[1].node.raw \o <<" ", " ", "c">>

\* extractNodeText returned the same two children with the end untrimmed
C25_UntrimmedWitness ==
    /\ ReconDone
    /\ fn = "extractNodeText"
    /\ Len(arg) = 2
    /\ arg[2].node.kind = "CodeBlock"
    /\ ret # TrimSpace(ret)

(***************************************************************************)
(* Tree shapes (Spec).                                                     *)
(***************************************************************************)
\* a list without items, or whose first item has no children
OddList(l) == l.mark = "plain" /\ (l.items = <<>> \/ l.items[1] = "empty")

\* C26: a list without a first item, or whose first item has no children,
\* is no match and the walk goes on: every walk goes through the whole
\* document, the extraction returns without an error of its own, and the
\* marked lists below such a list still give their posts.
C26_TreeShapes ==
    /\ (pc = "extracted") => wi > Len(walk)
    /\ (pc = "extracted" /\ ranNested) =>
          \A k \in 1..Len(ExactLists(doc)) :
              LET l == doc.lists[ExactLists(doc)[k]]
              IN  /\ k <= Len(nestedResult)
                  /\ l.wrap <= 1 =>
                        /\ nestedResult[k].Meta.Title = TitleOf(l.id)
                        /\ nestedResult[k].Meta.Status = StatusText(l.status)
                        /\ IsPlain(l.items) => nestedResult[k].Content = PlainBlocks(l.items)
    /\ (pc = "extracted" /\ ranTop /\ doc \in ShapeDocs) =>
          Len(topResult) = ExactTop(doc)

\* the post of the third list came out although a list without items and a
\* list with an empty first item stand above it
C26_Witness ==
    /\ pc = "extracted"
    /\ ranNested
    /\ doc \in ShapeDocs
    /\ Len(doc.lists) = 3
    /\ OddList(doc.lists[1]) /\ OddList(doc.lists[2])
    /\ Len(nestedResult) = 1
    /\ nestedResult[1].Meta.Title = TitleOf(3)
    /\ nestedResult[1].Content = <<TextA, TextB>>

(***************************************************************************)
(* Two extraction calls on two documents, interleaved (PairSpec).  Each    *)
(* call has its locals: posts, processedLists and its place in its walk.   *)
(* The extractor they may share holds the parser only, which has no        *)
(* mutable state (Parse is a function of its lines).  ret holds the two    *)
(* calls; calls stands for what the extractor keeps between calls:         *)
(* nothing.                                                                *)
(***************************************************************************)
PairDocs ==
    {[top |-> NoTop, lists |-> <<ListDesc(0, "exact", "online", FALSE, <<"A", "B">>)>>],
     [top |-> NoTop,
      lists |-> WithIds(<<ListDesc(0, "exact", "online", FALSE, <<"A">>),
                          ListDesc(1, "exact", "draft", FALSE, <<"B">>)>>)],
     [top |-> NoTop, lists |-> <<ListDesc(0, "exact", "online", FALSE, <<"submarked">>)>>],
     [top |-> NoTop, lists |-> <<ListDesc(0, "plain", "none", FALSE, <<"A", "B">>)>>],
     [top |-> [mark |-> "exact", status |-> "online"],
      lists |-> WithIds(<<ListDesc(0, "plain", "none", FALSE, <<"A", "B">>)>>)]}

ExtractFns == {"Extract", "extractBlogPosts"}

PairInputs ==
    {i \in [docs : PairDocs \X PairDocs, fns : ExtractFns \X ExtractFns] :
        i.docs[1] # i.docs[2]}

NotCalled == [pc |-> "start", wi |-> 0, posts |-> <<>>, processedLists |-> {},
              result |-> <<>>]

PairInit ==
    /\ ConvIdle
    /\ fn = "Extract"
    /\ arg \in PairInputs
    /\ ret = <<NotCalled, NotCalled>>
    /\ step = 0
    /\ slept = <<>>
    /\ calls = {}

\* the walk of extractTopLevelPost from walk[i] on
RECURSIVE TopWalk(_, _, _, _)
TopWalk(t, w, i, st) ==
    IF i > Len(w) THEN st
    ELSE LET p == w[i]
             n == NodeAt(t, p)
             lines == MetadataLinesOf(n)
             found == st.found \/ HasMarkerLine(lines)
         IN  TopWalk(t, w, i + 1,
                 [found |-> found,
                  lines |-> st.lines \o lines,
                  blocks |-> IF found /\ n.kind = "List" /\ ~IsNestedList(t, p)
                             THEN st.blocks \o [k \in 1..Len(n.kids) |-> extractText(n.kids[k])]
                             ELSE st.blocks])

extractTopLevelPost(t, w) ==
    LET st == TopWalk(t, w, 1, [found |-> FALSE, lines |-> <<>>, blocks |-> <<>>])
    IN  TopLevelPost(st.found, st.lines, st.blocks)

\* call c starts: its posts and its processed set are made anew;
\* extractBlogPosts returns the top-level post when there is one
PairStart ==
    \E c \in 1..2 :
        /\ fn = "Extract"
        /\ ret[c].pc = "start"
        /\ LET d == arg.docs[c]
               top == IF arg.fns[c] = "extractBlogPosts"
                      THEN extractTopLevelPost(TreeOf[d], WalkOf[d])
                      ELSE <<>>
           IN  ret' = [ret EXCEPT ![c] =
                   IF Len(top) > 0
                   THEN [pc |-> "returned", wi |-> 0, posts |-> top, processedLists |-> {},
                         result |-> top]
                   ELSE [pc |-> "walk", wi |-> 1, posts |-> <<>>, processedLists |-> {},
                         result |-> <<>>]]
        /\ step' = step + 1
        /\ UNCHANGED <<convVars, fn, arg, slept, calls>>

\* a processed set kept between the calls (what C27 rules out)
PairVisitSharedSet ==
    \E c \in 1..2 :
        /\ fn = "Extract"
        /\ ret[c].pc = "walk"
        /\ ret[c].wi <= Len(WalkOf[arg.docs[c]])
        /\ LET t == TreeOf[arg.docs[c]]
               p == WalkOf[arg.docs[c]][ret[c].wi]
               n == NodeAt(t, p)
           IN  IF n.kind = "List" /\ p \notin calls /\ IsBlogList(n)
               THEN /\ ret' = [ret EXCEPT ![c].wi = @ + 1,
                                          ![c].posts =
                                              Append(@, IF arg.fns[c] = "Extract"
                                                        THEN extractFromList(t, p)
                                                        ELSE extractListPost(t, p))]
                    /\ calls' = MarkProcessed(t, p, calls)
               ELSE /\ ret' = [ret EXCEPT ![c].wi = @ + 1]
                    /\ calls' = calls
        /\ step' = step + 1
        /\ UNCHANGED <<convVars, fn, arg, slept>>

\* the callback of call c's list walk, entering the next node of its document
PairVisit ==
    \E c \in 1..2 :
        /\ fn = "Extract"
        /\ ret[c].pc = "walk"
        /\ ret[c].wi <= Len(WalkOf[arg.docs[c]])
        /\ LET t == TreeOf[arg.docs[c]]
               p == WalkOf[arg.docs[c]][ret[c].wi]
               n == NodeAt(t, p)
           IN  IF n.kind = "List" /\ p \notin ret[c].processedLists /\ IsBlogList(n)
               THEN ret' = [ret EXCEPT ![c].wi = @ + 1,
                                       ![c].posts =
                                           Append(@, IF arg.fns[c] = "Extract"
                                                     THEN extractFromList(t, p)
                                                     ELSE extractListPost(t, p)),
                                       ![c].processedLists = MarkProcessed(t, p, @)]
               ELSE ret' = [ret EXCEPT ![c].wi = @ + 1]
        /\ step' = step + 1
        /\ UNCHANGED <<convVars, fn, arg, slept, calls>>

\* call c's walk is over: it returns its posts
PairReturn ==
    \E c \in 1..2 :
        /\ fn = "Extract"
        /\ ret[c].pc = "walk"
        /\ ret[c].wi > Len(WalkOf[arg.docs[c]])
        /\ ret' = [ret EXCEPT ![c].pc = "returned", ![c].result = ret[c].posts]
        /\ step' = step + 1
        /\ UNCHANGED <<convVars, fn, arg, slept, calls>>

PairNext == PairStart \/ PairVisit \/ PairReturn

PairSpec == PairInit /\ [][PairNext]_vars

\* the posts a call is to return for a described document when it runs alone:
\* the title and the items of each post
PostsAlone(d, f) ==
    IF f = "extractBlogPosts" /\ ExactTop(d) = 1
    THEN <<[title |-> TitleOf(0), items |-> ExpectedTopItems(d)]>>
    ELSE [k \in 1..Len(ExactLists(d)) |->
            [title |-> TitleOf(d.lists[ExactLists(d)[k]].id),
             items |-> d.lists[ExactLists(d)[k]].items]]

\* C27: the processed set is made anew in each extraction call and the
\* parser holds no mutable state: two calls on different documents, run in
\* any interleaving, each return the posts they return when run alone, and
\* nothing is kept between calls.
C27_NoCrossCallState ==
    fn = "Extract" =>
        /\ calls = {}
        /\ \A c \in 1..2 :
              ret[c].pc = "returned" =>
                  LET want == PostsAlone(arg.docs[c], arg.fns[c])
                      got == ret[c].result
                  IN  /\ Len(got) = Len(want)
                      /\ \A k \in 1..Len(want) :
                            /\ k <= Len(got)
                            /\ got[k].Meta.Title = want[k].title
                            /\ IsPlain(want[k].items) =>
                                  got[k].Content = PlainBlocks(want[k].items)

\* both calls have returned after call 2 started in the middle of call 1's
\* walk, each with a post of its own document
C27_Witness ==
    /\ fn = "Extract"
    /\ ret[1].pc = "returned" /\ ret[2].pc = "returned"
    /\ arg.fns = <<"Extract", "extractBlogPosts">>
    /\ Len(ret[1].result) = 2
    /\ Len(ret[2].result) = 1
    /\ ret[1].processedLists # {} /\ ret[2].processedLists # {}
    /\ ret[1].result[1].Meta.Title # ret[2].result[1].Meta.Title
       \/ ret[1].result[1].Content # ret[2].result[1].Content

(***************************************************************************)
(* The processed set (Spec).                                               *)
(***************************************************************************)
\* the lists of the document at or below position s
ListsAtOrBelow(s) ==
    {walk[j] : j \in {k \in 1..Len(walk) :
        IsPrefix(s, walk[k]) /\ NodeAt(tree, walk[k]).kind = "List"}}

ProcessedCoversMatches ==
    (pc \in {"nested", "list2", "top", "extracted"}) =>
        /\ \A i \in 1..Len(sources) : ListsAtOrBelow(sources[i]) \subseteq processedLists
        /\ \A i, j \in 1..Len(sources) :
              i # j => sources[i] # sources[j] /\ ~IsPrefix(sources[i], sources[j])
        /\ Len(posts) = Len(sources)

ProcessedGrows ==
    (pc \in {"nested", "list2"} /\ pc' = pc) => processedLists \subseteq processedLists'

\* C28: once a list is matched, every list in its subtree, also under its
\* second and later items, is in the processed set and is not extracted in
\* the same walk, even when its own first item carries the marker: no two
\* posts of one extraction come from lists of which one contains the other,
\* and the processed set only grows during a walk.
C28_ProcessedSubtree == []ProcessedCoversMatches /\ [][ProcessedGrows]_vars

\* a marked list under the third item of a matched list is in the processed
\* set and gave no post
C28_Witness ==
    /\ pc = "extracted"
    /\ ranNested
    /\ Len(sources) = 1
    /\ \E p \in processedLists :
          /\ Len(p) > Len(sources[1]) + 1
          /\ p[Len(sources[1]) + 1] = 3
          /\ IsBlogList(NodeAt(tree, p))
    /\ Len(nestedResult) = 1

(***************************************************************************)
(* The output paths of a conversion (Spec).                                *)
(***************************************************************************)
\* the positions of the extracted posts whose status is "online"
OnlinePosts ==
    SelectSeq([k \in 1..Len(allPosts) |-> k], LAMBDA k : allPosts[k].Meta.Status = Online)

\* C29: when no I/O step fails, Convert and convertFile return one output
\* path per extracted post with status "online", in extraction order; a
\* post with another status does not keep the online posts after it from
\* being written and returned.
C29_OnePathPerOnlinePost ==
    (/\ pc = "done"
     /\ prog # "convertLogseqToHugo"
     /\ result.returned
     /\ result.err = "") =>
        /\ Len(result.paths) = Len(OnlinePosts)
        /\ \A k \in 1..Len(OnlinePosts) :
              /\ k <= Len(result.paths)
              /\ result.paths[k] = allPosts[OnlinePosts[k]].Meta.Date \o <<"_">>
                                   \o allPosts[OnlinePosts[k]].Meta.Title
              /\ result.paths[k] \in dirs
              /\ \E f \in files : f.dir = result.paths[k]

\* a draft came first and the online post after it was written and returned
C29_Witness ==
    /\ pc = "done"
    /\ prog = "Convert"
    /\ result.returned /\ result.err = ""
    /\ Len(allPosts) = 2
    /\ allPosts[1].Meta.Status = Draft
    /\ allPosts[2].Meta.Status = Online
    /\ result.paths = <<DateValue \o <<"_">> \o TitleOf(2)>>

\* ---------------------------------------------------------------------
\* The translate command: main of cmd/translate (src/unnamed/part_004)
\* ---------------------------------------------------------------------

\* the command lines and environments main is started with: with or without
\* the file argument, the file present or not, OPENAI_API_KEY set or not
MainFiles ==
    {a \in FileInputs :
        /\ a.title.token = <<"\"", "T", "e", "s", "t", " ", "T", "i", "t", "l", "e", "\"">>
        /\ a.summary.value = <<>>
        /\ a.content = <<" ", " ", "B", "o", "d", "y", " ", "\n">>
        /\ a.shape \in {"complete", "no closing"}
        /\ ~a.author}
    \cup {[dir |-> <<"c", "o", "n", "t", "e", "n", "t", "/">>, file |-> f,
           title |-> CHOOSE t \in TitleTokens : t.value = <<"T", "e", "s", "t", " ", "T", "i", "t", "l", "e">>
                                                /\ t.token[1] = "\"",
           summary |-> CHOOSE s \in SummaryTokens : s.value = <<>>,
           content |-> <<" ", " ", "B", "o", "d", "y", " ", "\n">>,
           shape |-> "complete", author |-> FALSE] :
          f \in {g \in LangFileNames : g.lang \in Langs}}
MainInputs == [hasArg : BOOLEAN, exists : BOOLEAN, key : BOOLEAN, file : MainFiles]

\* step: 0 before main runs, 1 inside the range loop, 2 after os.Exit or
\* the return of main; calls is the record of the attempts made
MainInit ==
    /\ ConvIdle
    /\ fn = "main"
    /\ arg \in MainInputs
    /\ ret = [markdownFile |-> NoFile, targetLanguages |-> <<>>, i |-> 1,
              successCount |-> 0, status |-> 0]
    /\ step = 0
    /\ slept = <<>>
    /\ calls = <<>>

\* main up to the loop: the argument check, os.Stat, ParseMarkdownFile,
\* GetTargetLanguages, NewTranslator; each failure is os.Exit(1), no
\* target language is os.Exit(0)
MainStart ==
    /\ fn = "main"
    /\ step = 0
    /\ LET markdownFile == ParseMarkdownFile(PathOf(arg.file), TRUE, FileData(arg.file))
           targetLanguages == GetTargetLanguages(markdownFile.SourceLang)
       IN  IF ~arg.hasArg \/ ~arg.exists
           THEN /\ ret' = [ret EXCEPT !.status = 1]
                /\ step' = 2
           ELSE IF markdownFile.err # ""
           THEN /\ ret' = [ret EXCEPT !.markdownFile = markdownFile, !.status = 1]
                /\ step' = 2
           ELSE IF Len(targetLanguages) = 0
           THEN /\ ret' = [ret EXCEPT !.markdownFile = markdownFile, !.status = 0]
                /\ step' = 2
           ELSE IF ~arg.key
           THEN /\ ret' = [ret EXCEPT !.markdownFile = markdownFile,
                                      !.targetLanguages = targetLanguages, !.status = 1]
                /\ step' = 2
           ELSE /\ ret' = [ret EXCEPT !.markdownFile = markdownFile,
                                      !.targetLanguages = targetLanguages,
                                      !.successCount = 0]
                /\ step' = 1
    /\ UNCHANGED <<convVars, fn, arg, slept, calls>>

\* a loop that gives up at the first language that fails to translate
TranslateFailsBreak ==
    /\ fn = "main"
    /\ step = 1
    /\ ret.i <= Len(ret.targetLanguages)
    /\ calls' = Append(calls, [lang |-> ret.targetLanguages[ret.i],
                               outcome |-> "translate failed"])
    /\ ret' = [ret EXCEPT !.i = Len(ret.targetLanguages) + 1]
    /\ UNCHANGED <<convVars, fn, arg, step, slept>>

\* TranslateMarkdownFile returns an error: the message is printed and the
\* loop continues with the next language
TranslateFails ==
    /\ fn = "main"
    /\ step = 1
    /\ ret.i <= Len(ret.targetLanguages)
    /\ calls' = Append(calls, [lang |-> ret.targetLanguages[ret.i],
                               outcome |-> "translate failed"])
    /\ ret' = [ret EXCEPT !.i = ret.i + 1]
    /\ UNCHANGED <<convVars, fn, arg, step, slept>>

\* the translation is there and WriteTranslation returns an error: continue
WriteFails ==
    /\ fn = "main"
    /\ step = 1
    /\ ret.i <= Len(ret.targetLanguages)
    /\ calls' = Append(calls, [lang |-> ret.targetLanguages[ret.i],
                               outcome |-> "write failed"])
    /\ ret' = [ret EXCEPT !.i = ret.i + 1]
    /\ UNCHANGED <<convVars, fn, arg, step, slept>>

\* both calls succeed: successCount++
LanguageCreated ==
    /\ fn = "main"
    /\ step = 1
    /\ ret.i <= Len(ret.targetLanguages)
    /\ calls' = Append(calls, [lang |-> ret.targetLanguages[ret.i],
                               outcome |-> "created"])
    /\ ret' = [ret EXCEPT !.i = ret.i + 1, !.successCount = ret.successCount + 1]
    /\ UNCHANGED <<convVars, fn, arg, step, slept>>

\* after the loop: os.Exit(1) if successCount < len(targetLanguages),
\* else main returns (status 0)
MainExit ==
    /\ fn = "main"
    /\ step = 1
    /\ ret.i > Len(ret.targetLanguages)
    /\ ret' = [ret EXCEPT !.status = IF ret.successCount < Len(ret.targetLanguages)
                                     THEN 1 ELSE 0]
    /\ step' = 2
    /\ UNCHANGED <<convVars, fn, arg, slept, calls>>

MainNext ==
    \/ MainStart
    \/ TranslateFails
    \/ WriteFails
    \/ LanguageCreated
    \/ MainExit

\* one pass of the loop body, or the statements after the loop
LoopStep == TranslateFails \/ WriteFails \/ LanguageCreated \/ MainExit

\* every call of the loop body returns: TranslateText makes at most
\* maxRetries attempts under a context with a timeout, and WriteTranslation
\* is one os.WriteFile; so a loop that was entered goes on
MainSpec == MainInit /\ [][MainNext]_vars /\ WF_vars(LoopStep)

\* the languages the run is to translate to: the supported ones but the
\* one named in the file name, in the order of SupportedLanguages
Targeted == SelectSeq(LangCodes, LAMBDA c : c # arg.file.file.lang)
Attempted == [k \in 1..Len(calls) |-> calls[k].lang]
Succeeded == {k \in 1..Len(calls) : calls[k].outcome = "created"}
LoopEntered ==
    /\ fn = "main"
    /\ \/ step = 1
       \/ step = 2 /\ Len(ret.targetLanguages) > 0 /\ arg.key
LoopLeft == fn = "main" /\ step = 2 /\ LoopEntered

\* inside the loop the attempts are the first languages of the targets, in
\* order, whatever their outcomes; after it every target was attempted once
\* and the exit status is 1 exactly when fewer were created than targeted
AttemptsInOrder ==
    /\ (fn = "main" /\ step = 1) =>
          /\ Len(Attempted) <= Len(Targeted)
          /\ Attempted = SubSeq(Targeted, 1, Len(Attempted))
    /\ LoopLeft =>
          /\ Attempted = Targeted
          /\ (ret.status = 1) <=> (Cardinality(Succeeded) < Len(Targeted))
          /\ ret.status \in {0, 1}

\* C30: once main has its translator, the loop attempts every target
\* language in order: a failure to translate or to write one language does
\* not keep the following ones from being attempted, the loop comes to its
\* end, and the process ends with exit status 1 exactly when fewer
\* languages succeeded than were targeted (0 otherwise).
C30_EveryLanguageAttempted ==
    /\ []AttemptsInOrder
    /\ (fn = "main" /\ step = 1) ~> LoopLeft

\* the first language failed to translate, the second failed to write, the
\* other two were created, and the process ended with status 1
C30_Witness ==
    /\ LoopLeft
    /\ Len(calls) = 4
    /\ calls[1].outcome = "translate failed"
    /\ calls[2].outcome = "write failed"
    /\ calls[3].outcome = "created"
    /\ calls[4].outcome = "created"
    /\ ret.successCount = 2
    /\ ret.status = 1

\* every language was created and main returned with status 0
C30_AllCreatedWitness ==
    /\ LoopLeft
    /\ Cardinality(Succeeded) = 4
    /\ ret.status = 0

\* main ends before the loop (no argument, no file, a file that does not
\* parse, no API key) with status 1 and without an attempt
EarlyExit ==
    (fn = "main" /\ step = 2 /\ ~LoopEntered) => (ret.status = 1 /\ calls = <<>>)

====
